---- MODULE Spec2Model ----
(***************************************************************************)
(* Freeze-risk assessment (claude_risk_analyzer.py) and health-driven      *)
(* routing (enhanced_routing_engine.py) over the balance_transactions      *)
(* ledger.                                                                 *)
(*                                                                         *)
(* Numbers that are floats in the source are exact rationals <<n, d>>      *)
(* here (d > 0, lowest terms).  Text is a sequence of one-character        *)
(* strings so that lower() and the substring test `kw in text` are         *)
(* computed, not assumed.  Time is counted in whole hours.                 *)
(***************************************************************************)
EXTENDS Integers, Sequences, FiniteSets, TLC

VARIABLES
    ledger,        \* rows of balance_transactions: transaction content -> row count
    nInserts,      \* number of insert batches applied to the ledger so far
    analysis,      \* what analyze_transactions returned for this ledger, or None
    healths,       \* what assess_processor_health returned for this ledger, or None
    decision,      \* outcome of the latest request when it was a routing request, or None
    factors,       \* a RiskFactor list handed to _calculate_overall_risk
    aggregate,     \* last return of _calculate_overall_risk(factors), or None
    remembered,    \* history: the first decision returned for this ledger, or None
    router,        \* latest call of ClaudeRouter.make_routing_decision, or None
    processor_health,  \* ClaudeRouter.processor_health: id -> [frozen, failure_count]
    failure_history,   \* ClaudeRouter.failure_history: the recorded ProcessorFailures
    insights_cache,    \* ClaudeRouter._insights_cache: key -> insights per processor
    orchestrator_cache,\* PaymentInsightsOrchestrator.insights_cache: key -> insights
    hour,              \* datetime.utcnow().hour
    lookup,            \* latest call of _get_realtime_insights, or None
    enhanced,          \* latest call of _apply_insights_to_processors, or None
    breaker,           \* the CircuitBreaker: state, failure_count, last_failure_time
    now,               \* datetime.now().timestamp(), in seconds
    call,              \* latest CircuitBreaker.call, or None
    redis_key,         \* the Redis key rate_limit:brave_api: value (0: no key), expires
    coroutines,        \* the coroutines in _check_rate_limit: position, current_count
    granted            \* history: calls of _check_rate_limit answered True in this window

\* state of the router's health tracking
healthVars == <<processor_health, failure_history>>

\* state of the real-time insights
insightVars == <<insights_cache, orchestrator_cache, hour, lookup, enhanced>>

\* state of the circuit breaker
breakerVars == <<breaker, now, call>>

\* state of the rate limiter
limiterVars == <<redis_key, coroutines, granted>>

supportVars == <<healthVars, insightVars, breakerVars, limiterVars>>

vars == <<ledger, nInserts, analysis, healths, decision, factors, aggregate, remembered, router,
          supportVars>>

None == [none |-> TRUE]

-----------------------------------------------------------------------------
(* Bounds of the model *)

MaxInserts == 3
MaxFactors == 2

-----------------------------------------------------------------------------
(* Exact rational arithmetic *)

Abs(n) == IF n < 0 THEN -n ELSE n

RECURSIVE GCD(_, _)
GCD(a, b) == IF b = 0 THEN a ELSE GCD(b, a % b)

Rat(n, d) == LET g == GCD(Abs(n), d) IN <<n \div g, d \div g>>
Whole(n) == <<n, 1>>
Pct(n) == Rat(n, 100)

RAdd(x, y) == Rat(x[1] * y[2] + y[1] * x[2], x[2] * y[2])
RSub(x, y) == Rat(x[1] * y[2] - y[1] * x[2], x[2] * y[2])
RMul(x, y) == Rat(x[1] * y[1], x[2] * y[2])
RLeq(x, y) == x[1] * y[2] <= y[1] * x[2]
RLt(x, y)  == x[1] * y[2] < y[1] * x[2]
RGeq(x, y) == RLeq(y, x)
RGt(x, y)  == RLt(y, x)
\* Python's max(a, b) and min(a, b) return a when neither is smaller
RMax(x, y) == IF RGt(y, x) THEN y ELSE x
RMin(x, y) == IF RLt(y, x) THEN y ELSE x

RECURSIVE RSum(_)
RSum(s) == IF s = <<>> THEN Whole(0) ELSE RAdd(Head(s), RSum(Tail(s)))

RECURSIVE RMaxOf(_)
RMaxOf(s) == IF Len(s) = 1 THEN s[1] ELSE RMax(s[1], RMaxOf(Tail(s)))

RECURSIVE SelectSeqBy(_, _)
SelectSeqBy(s, keep) ==
    IF s = <<>> THEN <<>>
    ELSE (IF keep[Head(s)] THEN <<Head(s)>> ELSE <<>>) \o SelectSeqBy(Tail(s), keep)

-----------------------------------------------------------------------------
(* Text: str.lower() and the substring test *)

UpperCase == <<"A","B","C","D","E","F","G","H","I","J","K","L","M",
               "N","O","P","Q","R","S","T","U","V","W","X","Y","Z">>
LowerCase == <<"a","b","c","d","e","f","g","h","i","j","k","l","m",
               "n","o","p","q","r","s","t","u","v","w","x","y","z">>

LowerChar(c) ==
    IF \E i \in 1..Len(UpperCase) : UpperCase[i] = c
    THEN LowerCase[CHOOSE i \in 1..Len(UpperCase) : UpperCase[i] = c]
    ELSE c

Lower(s) == [i \in 1..Len(s) |-> LowerChar(s[i])]

\* kw in text
Contains(kw, text) ==
    \E i \in 1..(Len(text) - Len(kw) + 1) : SubSeq(text, i, i + Len(kw) - 1) = kw

\* any(keyword in text for keyword in keywords)
AnyKeywordIn(keywords, text) ==
    \E k \in 1..Len(keywords) : Contains(keywords[k], text)

IsBlank(s) == \A i \in 1..Len(s) : s[i] = " "

\* keyword lists of the source
crypto_keywords ==
    << <<"c", "r", "y", "p", "t", "o">>,
       <<"w", "e", "b", "3">>,
       <<"d", "e", "f", "i">>,
       <<"n", "f", "t">>,
       <<"t", "o", "k", "e", "n">>,
       <<"b", "l", "o", "c", "k", "c", "h", "a", "i", "n">>,
       <<"w", "a", "l", "l", "e", "t">> >>
b2b_keywords ==
    << <<"b", "2", "b">>,
       <<"e", "n", "t", "e", "r", "p", "r", "i", "s", "e">>,
       <<"b", "u", "s", "i", "n", "e", "s", "s">>,
       <<"s", "u", "b", "s", "c", "r", "i", "p", "t", "i", "o", "n">> >>
marketplace_keywords ==
    << <<"m", "a", "r", "k", "e", "t", "p", "l", "a", "c", "e">>,
       <<"e", "c", "o", "m", "m", "e", "r", "c", "e">>,
       <<"c", "o", "n", "s", "u", "m", "e", "r">> >>
retail_keywords ==
    << <<"r", "e", "t", "a", "i", "l">>,
       <<"p", "o", "s">>,
       <<"s", "t", "o", "r", "e">> >>
international_keywords ==
    << <<"i", "n", "t", "e", "r", "n", "a", "t", "i", "o", "n", "a", "l">>,
       <<"g", "l", "o", "b", "a", "l">>,
       <<"c", "r", "o", "s", "s", "-", "b", "o", "r", "d", "e", "r">> >>
suspicious_keywords ==
    << <<"t", "e", "s", "t">>,
       <<"f", "a", "k", "e">>,
       <<"f", "r", "a", "u", "d">>,
       <<"c", "h", "a", "r", "g", "e", "b", "a", "c", "k">>,
       <<"d", "i", "s", "p", "u", "t", "e">> >>
best_for_stripe ==
    << <<"b", "2", "b">>,
       <<"s", "u", "b", "s", "c", "r", "i", "p", "t", "i", "o", "n">>,
       <<"s", "a", "a", "s">> >>
best_for_paypal ==
    << <<"c", "o", "n", "s", "u", "m", "e", "r">>,
       <<"m", "a", "r", "k", "e", "t", "p", "l", "a", "c", "e">>,
       <<"e", "c", "o", "m", "m", "e", "r", "c", "e">> >>
best_for_square ==
    << <<"r", "e", "t", "a", "i", "l">>,
       <<"p", "o", "s">>,
       <<"s", "m", "a", "l", "l", "_", "b", "u", "s", "i", "n", "e", "s", "s">> >>
best_for_visa ==
    << <<"e", "n", "t", "e", "r", "p", "r", "i", "s", "e">>,
       <<"h", "i", "g", "h", "_", "v", "a", "l", "u", "e">>,
       <<"i", "n", "t", "e", "r", "n", "a", "t", "i", "o", "n", "a", "l">> >>
best_for_adyen ==
    << <<"i", "n", "t", "e", "r", "n", "a", "t", "i", "o", "n", "a", "l">>,
       <<"e", "n", "t", "e", "r", "p", "r", "i", "s", "e">>,
       <<"h", "i", "g", "h", "_", "v", "o", "l", "u", "m", "e">> >>
best_for_crossmint ==
    << <<"c", "r", "y", "p", "t", "o">>,
       <<"w", "e", "b", "3">>,
       <<"d", "e", "f", "i">>,
       <<"n", "f", "t">>,
       <<"i", "n", "t", "e", "r", "n", "a", "t", "i", "o", "n", "a", "l">> >>

\* sample descriptions
DescSubscription == <<"B", "2", "B", " ", "m", "o", "n", "t", "h", "l", "y", " ", "s", "u", "b", "s", "c", "r", "i", "p", "t", "i", "o", "n">>
DescEnterprise == <<"E", "n", "t", "e", "r", "p", "r", "i", "s", "e", " ", "s", "o", "f", "t", "w", "a", "r", "e", " ", "l", "i", "c", "e", "n", "s", "e">>
DescNFT == <<"N", "F", "T", " ", "m", "a", "r", "k", "e", "t", "p", "l", "a", "c", "e", " ", "p", "u", "r", "c", "h", "a", "s", "e">>
DescConsumer == <<"C", "o", "n", "s", "u", "m", "e", "r", " ", "p", "u", "r", "c", "h", "a", "s", "e">>
DescRetail == <<"R", "e", "t", "a", "i", "l", " ", "s", "t", "o", "r", "e", " ", "o", "r", "d", "e", "r">>
DescGlobal == <<"G", "l", "o", "b", "a", "l", " ", "c", "r", "o", "s", "s", "-", "b", "o", "r", "d", "e", "r", " ", "p", "a", "y", "o", "u", "t">>
DescCoffee == <<"C", "o", "f", "f", "e", "e">>
DescLatest == <<"L", "a", "t", "e", "s", "t", " ", "i", "n", "v", "o", "i", "c", "e">>
DescBusinessMarket == <<"B", "u", "s", "i", "n", "e", "s", "s", " ", "m", "a", "r", "k", "e", "t", "p", "l", "a", "c", "e", " ", "o", "r", "d", "e", "r">>
DescEcommerceStore == <<"E", "c", "o", "m", "m", "e", "r", "c", "e", " ", "s", "t", "o", "r", "e">>
DescGlobalRetail == <<"G", "l", "o", "b", "a", "l", " ", "r", "e", "t", "a", "i", "l", " ", "p", "o", "s">>
DescBusinessRetail == <<"B", "2", "B", " ", "r", "e", "t", "a", "i", "l", " ", "p", "o", "s">>
DescEmpty == <<>>

-----------------------------------------------------------------------------
(* The ledger: rows of table balance_transactions *)

time_window_hours == 24

Now == 41 * 24 + 15                         \* current time, in hours
cutoff_time == Now - time_window_hours      \* start of the analysis window
thirty_days_ago == Now - 30 * 24            \* start of the baseline window
HourA == Now - 2
HourB == Now - 1
HourOld == Now - 3 * 24

Txn(type, created, amount, description) ==
    [type |-> type, created |-> created, amount |-> amount, description |-> description]

\* the distinct row contents the model inserts, by name
RowKinds == {"old_charge", "charge_a", "charge_b", "big_charge", "suspicious_charge",
             "refund_a", "adjustment_a"}

TxnOf ==
    [k \in RowKinds |->
        CASE k = "old_charge"        -> Txn("charge", HourOld, 5000, DescSubscription)
          [] k = "charge_a"          -> Txn("charge", HourA, 5000, DescSubscription)
          [] k = "charge_b"          -> Txn("charge", HourB, 4200, DescCoffee)
          [] k = "big_charge"        -> Txn("charge", HourA, 100000, DescEnterprise)
          [] k = "suspicious_charge" -> Txn("charge", HourB, 5000, DescLatest)
          [] k = "refund_a"          -> Txn("refund", HourA, 5000, DescEmpty)
          [] k = "adjustment_a"      -> Txn("adjustment", HourA, 1500, DescEmpty)]

\* the batches of rows a payment event source inserts: <<row content, row count>>
InsertBatches ==
    { <<"old_charge", 99>>,
      <<"charge_a", 1>>, <<"charge_a", 10>>, <<"charge_a", 99>>,
      <<"charge_b", 10>>,
      <<"big_charge", 1>>, <<"suspicious_charge", 1>>,
      <<"refund_a", 1>>, <<"refund_a", 99>>,
      <<"adjustment_a", 1>> }

EmptyLedger == [k \in RowKinds |-> 0]

RECURSIVE SumOver(_, _)
SumOver(S, f) ==
    IF S = {} THEN 0
    ELSE LET x == CHOOSE y \in S : TRUE IN f[x] + SumOver(S \ {x}, f)

\* len([t for t in rows if t in S])
CountIn(rows, S) == SumOver(S, rows)
Present(rows, S) == {k \in S : rows[k] > 0}

OfType(type) == {k \in RowKinds : TxnOf[k].type = type}
ChargeRows     == OfType("charge")
RefundRows     == OfType("refund")
AdjustmentRows == OfType("adjustment")

\* SELECT ... FROM balance_transactions WHERE created >= cutoff_time
WindowRows == {k \in RowKinds : TxnOf[k].created >= cutoff_time}
FetchWindow(db) == [k \in RowKinds |-> IF k \in WindowRows THEN db[k] ELSE 0]

\* SELECT COUNT(*) / 30.0 ... WHERE created >= thirty_days_ago AND type = 'charge';
\* `fetchone()[0] or 10`
BaselineRowsAnalyzer == {k \in ChargeRows : TxnOf[k].created >= thirty_days_ago}
BaselineDailyAnalyzer(db) ==
    LET n == CountIn(db, BaselineRowsAnalyzer)
    IN  IF n = 0 THEN Whole(10) ELSE Rat(n, 30)

-----------------------------------------------------------------------------
(* claude_risk_analyzer.py: ClaudeRiskAnalysisEngine *)

RiskLevels == {"low", "medium", "high", "critical"}

\* self.stripe_thresholds of the risk analyzer
refund_rate_warning    == Pct(5)
refund_rate_freeze     == Pct(10)
chargeback_rate_freeze == Pct(1)
volume_spike_multiplier == Whole(10)
velocity_threshold == 100
enterprise_threshold == 100000

RiskFactor(pattern, severity, confidence, freeze_probability, risk_type, affected) ==
    [pattern |-> pattern, severity |-> severity, confidence |-> confidence,
     freeze_probability |-> freeze_probability, risk_type |-> risk_type,
     affected_transactions |-> affected]

RDiv(x, y) == Rat(x[1] * y[2], x[2] * y[1])

hours_analyzed(transactions) ==
    LET hours == {TxnOf[k].created % 24 : k \in Present(transactions, ChargeRows)}
    IN  IF Cardinality(hours) > 1 THEN Cardinality(hours) ELSE 1

\* faulty variant: the window's count is not scaled to a daily rate
volume_multiplier_unscaled(transactions, db) ==
    LET baseline_daily == BaselineDailyAnalyzer(db)
        current_volume == CountIn(transactions, ChargeRows)
    IN  IF RGt(baseline_daily, Whole(0)) THEN RDiv(Whole(current_volume), baseline_daily)
        ELSE Whole(1)

volume_multiplier(transactions, db) ==
    LET baseline_daily == BaselineDailyAnalyzer(db)
        current_volume == CountIn(transactions, ChargeRows)
        current_daily_rate == Rat(current_volume * 24, hours_analyzed(transactions))
    IN  IF RGt(baseline_daily, Whole(0)) THEN RDiv(current_daily_rate, baseline_daily)
        ELSE Whole(1)

\* returns a sequence holding the factor, or the empty sequence for None
analyze_volume_patterns(transactions, db) ==
    LET m == volume_multiplier(transactions, db)
    IN  IF RGeq(m, volume_spike_multiplier)
        THEN << RiskFactor("volume_spike",
                           IF RGeq(m, Whole(15)) THEN "high" ELSE "medium",
                           RMin(Pct(95), RDiv(m, Whole(20))),
                           RMin(Pct(85), RDiv(m, Whole(20))),
                           "account_level",
                           CountIn(transactions, ChargeRows)) >>
        ELSE <<>>

\* faulty variant: the rate is taken as charges per refund
analyze_refund_patterns_inverted_rate(transactions) ==
    LET charges == CountIn(transactions, ChargeRows)
        refunds == CountIn(transactions, RefundRows)
    IN  IF charges = 0 \/ refunds = 0 THEN <<>>
        ELSE LET refund_rate == Rat(charges, refunds)
             IN  IF RGeq(refund_rate, refund_rate_warning)
                 THEN << RiskFactor("refund_surge",
                                    IF RGeq(refund_rate, refund_rate_freeze)
                                    THEN "critical" ELSE "high",
                                    Pct(90),
                                    RMin(Pct(75), RMul(refund_rate, Whole(5))),
                                    "account_level",
                                    refunds) >>
                 ELSE <<>>

analyze_refund_patterns(transactions) ==
    LET charges == CountIn(transactions, ChargeRows)
        refunds == CountIn(transactions, RefundRows)
    IN  IF charges = 0 THEN <<>>
        ELSE LET refund_rate == Rat(refunds, charges)
             IN  IF RGeq(refund_rate, refund_rate_warning)
                 THEN << RiskFactor("refund_surge",
                                    IF RGeq(refund_rate, refund_rate_freeze)
                                    THEN "critical" ELSE "high",
                                    Pct(90),
                                    RMin(Pct(75), RMul(refund_rate, Whole(5))),
                                    "account_level",
                                    refunds) >>
                 ELSE <<>>

\* faulty variant: the threshold itself does not fire
analyze_chargeback_patterns_strict(transactions) ==
    LET charges == CountIn(transactions, ChargeRows)
        adjustments == CountIn(transactions, AdjustmentRows)
    IN  IF charges = 0 THEN <<>>
        ELSE LET chargeback_rate == Rat(adjustments, charges)
             IN  IF RGt(chargeback_rate, chargeback_rate_freeze)
                 THEN << RiskFactor("chargeback_pattern", "critical", Pct(95), Pct(90),
                                    "account_level", adjustments) >>
                 ELSE <<>>

analyze_chargeback_patterns(transactions) ==
    LET charges == CountIn(transactions, ChargeRows)
        adjustments == CountIn(transactions, AdjustmentRows)
    IN  IF charges = 0 THEN <<>>
        ELSE LET chargeback_rate == Rat(adjustments, charges)
             IN  IF RGeq(chargeback_rate, chargeback_rate_freeze)
                 THEN << RiskFactor("chargeback_pattern", "critical", Pct(95), Pct(90),
                                    "account_level", adjustments) >>
                 ELSE <<>>

\* hourly_counts[hour] counts every row of the window, whatever its type
hourly_counts(transactions) ==
    [h \in {TxnOf[k].created : k \in Present(transactions, RowKinds)} |->
        CountIn(transactions, {k \in RowKinds : TxnOf[k].created = h})]

max_hourly(transactions) ==
    LET hc == hourly_counts(transactions)
    IN  IF DOMAIN hc = {} THEN 0
        ELSE CHOOSE n \in {hc[h] : h \in DOMAIN hc} : \A h \in DOMAIN hc : hc[h] <= n

\* faulty variant: only the charges are counted in the hour buckets
analyze_velocity_patterns_charges_only(transactions) ==
    IF CountIn(transactions, RowKinds) = 0 THEN <<>>
    ELSE LET mh == max_hourly([k \in RowKinds |->
                                 IF k \in ChargeRows THEN transactions[k] ELSE 0])
         IN  IF mh >= velocity_threshold
             THEN << RiskFactor("velocity_anomaly", "high", Pct(80), Pct(60),
                                "account_level", mh) >>
             ELSE <<>>

analyze_velocity_patterns(transactions) ==
    IF CountIn(transactions, RowKinds) = 0 THEN <<>>
    ELSE LET mh == max_hourly(transactions)
         IN  IF mh >= velocity_threshold
             THEN << RiskFactor("velocity_anomaly", "high", Pct(80), Pct(60),
                                "account_level", mh) >>
             ELSE <<>>

IsSuspicious(t) ==
    /\ ~IsBlank(Lower(t.description))
    /\ AnyKeywordIn(suspicious_keywords, Lower(t.description))

\* evaluated once per sample row
SuspiciousRows == {k \in ChargeRows : IsSuspicious(TxnOf[k])}
HighValueRows == {k \in ChargeRows : TxnOf[k].amount >= enterprise_threshold}

\* faulty variant: the amount of single charges reported as an account-level factor
high_value_factor_account_level(high_value_txns) ==
    RiskFactor("high_value_transaction", "low", Pct(60), Pct(10),
               "account_level", high_value_txns)

high_value_factor(high_value_txns) ==
    RiskFactor("high_value_transaction", "low", Pct(60), Pct(10),
               "transaction_level", high_value_txns)

\* faulty variant: a risk_type that is neither of the two the analysis filters on
suspicious_description_factor_untyped(suspicious_txns) ==
    RiskFactor("suspicious_description", "medium", Pct(80), Pct(30),
               "transaction", suspicious_txns)

suspicious_description_factor(suspicious_txns) ==
    RiskFactor("suspicious_description", "medium", Pct(80), Pct(30),
               "transaction_level", suspicious_txns)

analyze_individual_transactions(transactions) ==
    LET charges == CountIn(transactions, ChargeRows)
        high_value_txns == CountIn(transactions, HighValueRows)
        suspicious_txns == CountIn(transactions, SuspiciousRows)
    IN  IF charges = 0 THEN <<>>
        ELSE (IF high_value_txns > 0 THEN <<high_value_factor(high_value_txns)>> ELSE <<>>)
             \o
             (IF suspicious_txns > 0
              THEN <<suspicious_description_factor(suspicious_txns)>> ELSE <<>>)

severity_weights(severity) ==
    CASE severity = "low" -> 1
      [] severity = "medium" -> 2
      [] severity = "high" -> 4
      [] severity = "critical" -> 8

IsAccountLevel(rf) == rf.risk_type = "account_level"
IsTransactionLevel(rf) == rf.risk_type = "transaction_level"

AccountRisks(risk_factors) == SelectSeq(risk_factors, IsAccountLevel)
TransactionRisks(risk_factors) == SelectSeq(risk_factors, IsTransactionLevel)

account_weight(risk_factors) ==
    LET ar == AccountRisks(risk_factors)
    IN  RSum([i \in 1..Len(ar) |->
                RMul(RMul(Whole(severity_weights(ar[i].severity)), ar[i].confidence), Whole(5))])

transaction_weight(risk_factors) ==
    LET tr == TransactionRisks(risk_factors)
    IN  RSum([i \in 1..Len(tr) |->
                RMul(Whole(severity_weights(tr[i].severity)), tr[i].confidence)])

max_freeze_prob(risk_factors) ==
    LET ar == AccountRisks(risk_factors)
        tr == TransactionRisks(risk_factors)
        account_freeze_prob ==
            IF ar # <<>> THEN RMaxOf([i \in 1..Len(ar) |-> ar[i].freeze_probability])
            ELSE Whole(0)
        transaction_freeze_prob ==
            IF tr # <<>> THEN RMaxOf([i \in 1..Len(tr) |-> tr[i].freeze_probability])
            ELSE Whole(0)
    IN  RMax(account_freeze_prob, RMul(transaction_freeze_prob, Pct(20)))

\* faulty variant: an account weight of exactly 16 is not yet high
overall_risk_level_strict(risk_factors) ==
    LET aw == account_weight(risk_factors)
        total_weight == RAdd(aw, transaction_weight(risk_factors))
    IN  IF \E i \in 1..Len(risk_factors) :
              /\ risk_factors[i].severity = "critical"
              /\ risk_factors[i].risk_type = "account_level"
        THEN "critical"
        ELSE IF RGt(aw, Whole(16)) THEN "high"
        ELSE IF RGeq(total_weight, Whole(8)) THEN "medium"
        ELSE "low"

overall_risk_level(risk_factors) ==
    LET aw == account_weight(risk_factors)
        total_weight == RAdd(aw, transaction_weight(risk_factors))
    IN  IF \E i \in 1..Len(risk_factors) :
              /\ risk_factors[i].severity = "critical"
              /\ risk_factors[i].risk_type = "account_level"
        THEN "critical"
        ELSE IF RGeq(aw, Whole(16)) THEN "high"
        ELSE IF RGeq(total_weight, Whole(8)) THEN "medium"
        ELSE "low"

calculate_overall_risk(risk_factors) ==
    IF risk_factors = <<>>
    THEN [overall_risk |-> "low", freeze_probability |-> Pct(5)]
    ELSE [overall_risk |-> overall_risk_level(risk_factors),
          freeze_probability |-> max_freeze_prob(risk_factors)]

create_empty_analysis ==
    [overall_risk |-> "low", freeze_probability |-> Whole(0),
     identified_patterns |-> <<>>,
     account_level_risks |-> <<>>, transaction_level_risks |-> <<>>,
     transaction_count |-> 0,
     refund_rate |-> Whole(0), chargeback_rate |-> Whole(0)]

RiskFactorsOf(transactions, db) ==
    analyze_volume_patterns(transactions, db)
    \o analyze_refund_patterns(transactions)
    \o analyze_chargeback_patterns(transactions)
    \o analyze_velocity_patterns(transactions)
    \o analyze_individual_transactions(transactions)

analyze_transactions(db) ==
    LET transactions == FetchWindow(db)
        charges == CountIn(transactions, ChargeRows)
    IN  IF CountIn(transactions, RowKinds) = 0 THEN create_empty_analysis
        ELSE LET risk_factors == RiskFactorsOf(transactions, db)
                 overall == calculate_overall_risk(risk_factors)
             IN  [overall_risk |-> overall.overall_risk,
                  freeze_probability |-> overall.freeze_probability,
                  identified_patterns |-> risk_factors,
                  account_level_risks |-> AccountRisks(risk_factors),
                  transaction_level_risks |-> TransactionRisks(risk_factors),
                  transaction_count |-> CountIn(transactions, RowKinds),
                  refund_rate |->
                      IF charges > 0
                      THEN Rat(CountIn(transactions, RefundRows), charges)
                      ELSE Whole(0),
                  chargeback_rate |->
                      IF charges > 0
                      THEN Rat(CountIn(transactions, AdjustmentRows), charges)
                      ELSE Whole(0)]

-----------------------------------------------------------------------------
(* enhanced_routing_engine.py: EnhancedClaudeRoutingEngine *)

\* enum ProcessorType, in declaration order (the iteration order of the health map)
ProcessorType == <<"stripe", "paypal", "square", "visa", "adyen", "crossmint">>
Processors == {ProcessorType[i] : i \in 1..Len(ProcessorType)}

\* self.stripe_thresholds of the routing engine
engine_chargeback_rate_freeze  == Pct(1)
engine_chargeback_rate_warning == Rat(5, 1000)
engine_refund_rate_freeze      == Pct(10)
engine_refund_rate_warning     == Pct(5)
volume_spike_freeze            == Whole(20)
volume_spike_warning           == Whole(10)

processor_capabilities ==
    [p \in Processors |->
        CASE p = "stripe"    -> [max_amount |-> 999999,  best_for |-> best_for_stripe,
                                 freeze_resistance |-> Pct(30)]
          [] p = "paypal"    -> [max_amount |-> 100000,  best_for |-> best_for_paypal,
                                 freeze_resistance |-> Pct(60)]
          [] p = "square"    -> [max_amount |-> 50000,   best_for |-> best_for_square,
                                 freeze_resistance |-> Pct(70)]
          [] p = "visa"      -> [max_amount |-> 2000000, best_for |-> best_for_visa,
                                 freeze_resistance |-> Pct(90)]
          [] p = "adyen"     -> [max_amount |-> 1000000, best_for |-> best_for_adyen,
                                 freeze_resistance |-> Pct(80)]
          [] p = "crossmint" -> [max_amount |-> 500000,  best_for |-> best_for_crossmint,
                                 freeze_resistance |-> Pct(95)]]

ProcessorHealth(processor, status, freeze_risk, cb, rr, vs, freeze_reasons) ==
    [processor |-> processor, status |-> status, freeze_risk |-> freeze_risk,
     chargeback_rate |-> cb, refund_rate |-> rr, volume_spike |-> vs,
     freeze_reasons |-> freeze_reasons]

\* the status assigned by the chargeback, refund and volume blocks, in that order
stripe_health_status_spike_overrides(chargeback_rate, refund_rate, volume_spike) ==
    LET cbFreeze == RGeq(chargeback_rate, engine_chargeback_rate_freeze)
        cbWarn   == ~cbFreeze /\ RGeq(chargeback_rate, engine_chargeback_rate_warning)
        status1  == IF cbFreeze THEN "frozen" ELSE IF cbWarn THEN "warning" ELSE "healthy"
        rrAny    == RGeq(refund_rate, engine_refund_rate_warning)
        status2  == IF rrAny /\ status1 = "healthy" THEN "warning" ELSE status1
        vsFreeze == RGeq(volume_spike, volume_spike_freeze)
        vsWarn   == ~vsFreeze /\ RGeq(volume_spike, volume_spike_warning)
    IN  \* faulty variant: the volume block downgrades a frozen status
        IF vsFreeze THEN "warning"
        ELSE IF vsWarn /\ status2 = "healthy" THEN "warning"
        ELSE status2

stripe_health_status(chargeback_rate, refund_rate, volume_spike) ==
    LET cbFreeze == RGeq(chargeback_rate, engine_chargeback_rate_freeze)
        cbWarn   == ~cbFreeze /\ RGeq(chargeback_rate, engine_chargeback_rate_warning)
        status1  == IF cbFreeze THEN "frozen" ELSE IF cbWarn THEN "warning" ELSE "healthy"
        rrFreeze == RGeq(refund_rate, engine_refund_rate_freeze)
        rrWarn   == ~rrFreeze /\ RGeq(refund_rate, engine_refund_rate_warning)
        status2  == IF (rrFreeze \/ rrWarn) /\ status1 = "healthy" THEN "warning"
                    ELSE status1
        vsFreeze == RGeq(volume_spike, volume_spike_freeze)
        vsWarn   == ~vsFreeze /\ RGeq(volume_spike, volume_spike_warning)
    IN  IF vsFreeze /\ status2 # "frozen" THEN "warning"
        ELSE IF vsWarn /\ status2 = "healthy" THEN "warning"
        ELSE status2

\* faulty variant: a refund rate at the freeze threshold weighs like a chargeback
\* rate at its freeze threshold
stripe_freeze_risk_refund_as_chargeback(chargeback_rate, refund_rate, volume_spike) ==
    IF RGeq(chargeback_rate, engine_chargeback_rate_freeze)
       \/ RGeq(refund_rate, engine_refund_rate_freeze)
    THEN Pct(95)
    ELSE IF RGeq(chargeback_rate, engine_chargeback_rate_warning) THEN Pct(60)
    ELSE IF RGeq(refund_rate, engine_refund_rate_warning) THEN Pct(40)
    ELSE IF RGeq(volume_spike, volume_spike_warning) THEN Pct(30)
    ELSE Whole(0)

\* freeze_risk = max(freeze_risk, x) in each block that fires
stripe_freeze_risk(chargeback_rate, refund_rate, volume_spike) ==
    LET risk1 == IF RGeq(chargeback_rate, engine_chargeback_rate_freeze)
                 THEN RMax(Whole(0), Pct(95))
                 ELSE IF RGeq(chargeback_rate, engine_chargeback_rate_warning)
                 THEN RMax(Whole(0), Pct(60))
                 ELSE Whole(0)
        risk2 == IF RGeq(refund_rate, engine_refund_rate_freeze) THEN RMax(risk1, Pct(85))
                 ELSE IF RGeq(refund_rate, engine_refund_rate_warning)
                 THEN RMax(risk1, Pct(40))
                 ELSE risk1
    IN  IF RGeq(volume_spike, volume_spike_freeze) THEN RMax(risk2, Pct(80))
        ELSE IF RGeq(volume_spike, volume_spike_warning) THEN RMax(risk2, Pct(30))
        ELSE risk2

\* freeze_reasons.append(...) in each block that fires
stripe_freeze_reasons(chargeback_rate, refund_rate, volume_spike) ==
    (IF RGeq(chargeback_rate, engine_chargeback_rate_freeze)
     THEN <<"CRITICAL: Chargeback rate">>
     ELSE IF RGeq(chargeback_rate, engine_chargeback_rate_warning)
     THEN <<"WARNING: Chargeback rate">> ELSE <<>>)
    \o
    (IF RGeq(refund_rate, engine_refund_rate_freeze) THEN <<"CRITICAL: Refund rate">>
     ELSE IF RGeq(refund_rate, engine_refund_rate_warning)
     THEN <<"WARNING: Refund rate">> ELSE <<>>)
    \o
    (IF RGeq(volume_spike, volume_spike_freeze) THEN <<"CRITICAL: Volume spike">>
     ELSE IF RGeq(volume_spike, volume_spike_warning)
     THEN <<"WARNING: Volume spike">> ELSE <<>>)

assess_stripe_health(chargeback_rate, refund_rate, volume_spike) ==
    ProcessorHealth("stripe",
                    stripe_health_status(chargeback_rate, refund_rate, volume_spike),
                    stripe_freeze_risk(chargeback_rate, refund_rate, volume_spike),
                    chargeback_rate, refund_rate, volume_spike,
                    stripe_freeze_reasons(chargeback_rate, refund_rate, volume_spike))

alternative_freeze_risk(stripe_status) ==
    IF stripe_status = "frozen" THEN Pct(10)
    ELSE IF stripe_status = "warning" THEN Pct(20)
    ELSE Pct(15)

assess_alternative_processor_health(processor, stripe_status) ==
    ProcessorHealth(processor, "healthy", alternative_freeze_risk(stripe_status),
                    Rat(5, 1000), Pct(3), Whole(1), <<>>)

\* SELECT type, COUNT(*) ... WHERE created >= cutoff_time GROUP BY type
StatsCount(db, type) == CountIn(FetchWindow(db), OfType(type))

\* SELECT COUNT(*) / 30.0 ... WHERE created >= baseline_window AND created < cutoff_time
\* AND type = 'charge'; `fetchone()[0] or 10`
BaselineRowsEngine ==
    {k \in ChargeRows : TxnOf[k].created >= thirty_days_ago /\ TxnOf[k].created < cutoff_time}
BaselineDailyEngine(db) ==
    LET n == CountIn(db, BaselineRowsEngine)
    IN  IF n = 0 THEN Whole(10) ELSE Rat(n, 30)

Max2(a, b) == IF a >= b THEN a ELSE b

assess_processor_health(db) ==
    LET charges     == StatsCount(db, "charge")
        refunds     == StatsCount(db, "refund")
        adjustments == StatsCount(db, "adjustment")
        chargeback_rate == Rat(adjustments, Max2(charges, 1))
        refund_rate     == Rat(refunds, Max2(charges, 1))
        baseline_daily  == BaselineDailyEngine(db)
        current_daily   == RDiv(Whole(charges), Rat(time_window_hours, 24))
        volume_spike    == IF RGt(baseline_daily, Whole(0))
                           THEN RDiv(current_daily, baseline_daily) ELSE Whole(1)
        stripe_health   == assess_stripe_health(chargeback_rate, refund_rate, volume_spike)
    IN  [p \in Processors |->
            IF p = "stripe" THEN stripe_health
            ELSE assess_alternative_processor_health(p, stripe_health.status)]

\* faulty variant: the keyword rules are tried before the amount rule
get_default_processor_keywords_first(amount, description) ==
    LET d == Lower(description)
    IN  IF AnyKeywordIn(crypto_keywords, d) THEN "crossmint"
        ELSE IF AnyKeywordIn(b2b_keywords, d) THEN "stripe"
        ELSE IF AnyKeywordIn(marketplace_keywords, d) THEN "paypal"
        ELSE IF AnyKeywordIn(retail_keywords, d) THEN "square"
        ELSE IF AnyKeywordIn(international_keywords, d) THEN "adyen"
        ELSE IF amount > 100000 THEN "visa"
        ELSE "stripe"

get_default_processor(amount, description) ==
    LET d == Lower(description)
    IN  IF amount > 100000 THEN "visa"
        ELSE IF AnyKeywordIn(crypto_keywords, d) THEN "crossmint"
        ELSE IF AnyKeywordIn(b2b_keywords, d) THEN "stripe"
        ELSE IF AnyKeywordIn(marketplace_keywords, d) THEN "paypal"
        ELSE IF AnyKeywordIn(retail_keywords, d) THEN "square"
        ELSE IF AnyKeywordIn(international_keywords, d) THEN "adyen"
        ELSE "stripe"

\* the requests the model routes
Request(amount, description) == [amount |-> amount, description |-> description]
Requests ==
    { Request(150, DescSubscription), Request(75000, DescEnterprise),
      Request(100000, DescCoffee), Request(100001, DescSubscription),
      Request(2500000, DescEnterprise), Request(20000, DescNFT),
      Request(150, DescConsumer), Request(75000, DescRetail),
      Request(150, DescGlobal), Request(150, DescBusinessMarket),
      Request(150, DescEcommerceStore), Request(150, DescGlobalRetail),
      Request(75000, DescBusinessRetail) }
Descriptions == {r.description : r \in Requests}

\* get_default_processor and the best_for test, evaluated once per request
DefaultProcessorOf ==
    [r \in Requests |-> get_default_processor(r.amount, r.description)]

business_type_fit(processor, description) ==
    AnyKeywordIn(processor_capabilities[processor].best_for, Lower(description))

BusinessTypeFitOf ==
    [p \in Processors, d \in Descriptions |-> business_type_fit(p, d)]

\* faulty variant: an amount above max_amount costs 10 points instead of 80
alternative_score_mild_penalty(processor, amount, description, processor_healths) ==
    LET capabilities == processor_capabilities[processor]
        s1 == IF amount <= capabilities.max_amount THEN Whole(30) ELSE Whole(20)
        s2 == IF BusinessTypeFitOf[processor, description] THEN RAdd(s1, Whole(25)) ELSE s1
        s3 == RAdd(s2, RMul(RSub(Whole(1), processor_healths[processor].freeze_risk), Whole(20)))
    IN  RAdd(s3, RMul(capabilities.freeze_resistance, Whole(15)))

alternative_score(processor, amount, description, processor_healths) ==
    LET capabilities == processor_capabilities[processor]
        s1 == IF amount <= capabilities.max_amount THEN Whole(30) ELSE Whole(0 - 50)
        s2 == IF BusinessTypeFitOf[processor, description] THEN RAdd(s1, Whole(25)) ELSE s1
        s3 == RAdd(s2, RMul(RSub(Whole(1), processor_healths[processor].freeze_risk), Whole(20)))
    IN  RAdd(s3, RMul(capabilities.freeze_resistance, Whole(15)))

\* max(scores, key=scores.get): the first key, in insertion order, of maximal score
RECURSIVE FirstMax(_, _, _)
FirstMax(candidates, score, best) ==
    IF candidates = <<>> THEN best
    ELSE FirstMax(Tail(candidates), score,
                  IF RGt(score[Head(candidates)], score[best]) THEN Head(candidates)
                  ELSE best)

IsNotStripe(p) == p # "stripe"

alternative_candidates == SelectSeq(ProcessorType, IsNotStripe)

select_stripe_alternative(amount, description, processor_healths) ==
    LET candidates == alternative_candidates
        scores == [p \in {candidates[i] : i \in 1..Len(candidates)} |->
                      alternative_score(p, amount, description, processor_healths)]
    IN  FirstMax(Tail(candidates), scores, Head(candidates))

\* sort key (-freeze_risk, -freeze_resistance), compared as Python compares tuples
FallbackKeyLess(p, q, healths_) ==
    LET rp == healths_[p].freeze_risk
        rq == healths_[q].freeze_risk
        fp == processor_capabilities[p].freeze_resistance
        fq == processor_capabilities[q].freeze_resistance
    IN  \/ RGt(rp, rq)
        \/ rp = rq /\ RGt(fp, fq)

\* sorted() is stable: x goes before the first element whose key is greater
RECURSIVE InsertByKey(_, _, _)
InsertByKey(x, sorted, healths_) ==
    IF sorted = <<>> THEN <<x>>
    ELSE IF FallbackKeyLess(x, Head(sorted), healths_) THEN <<x>> \o sorted
    ELSE <<Head(sorted)>> \o InsertByKey(x, Tail(sorted), healths_)

RECURSIVE SortedByKey(_, _)
SortedByKey(s, healths_) ==
    IF s = <<>> THEN <<>>
    ELSE InsertByKey(s[Len(s)], SortedByKey(SubSeq(s, 1, Len(s) - 1), healths_), healths_)

\* faulty variant: frozen processors are not excluded
build_fallback_chain_unfiltered(selected, healths_) ==
    LET keep == [p \in Processors |-> p # selected]
        available_processors == SelectSeqBy(ProcessorType, keep)
        fallback_chain == SortedByKey(available_processors, healths_)
    IN  SubSeq(fallback_chain, 1, IF Len(fallback_chain) < 3 THEN Len(fallback_chain) ELSE 3)

build_fallback_chain(selected, healths_) ==
    LET keep == [p \in Processors |-> p # selected /\ healths_[p].status # "frozen"]
        available_processors == SelectSeqBy(ProcessorType, keep)
        fallback_chain == SortedByKey(available_processors, healths_)
    IN  SubSeq(fallback_chain, 1, IF Len(fallback_chain) < 3 THEN Len(fallback_chain) ELSE 3)

\* faulty variant: only the proactive branch, a frozen status is not looked at
freeze_check_proactive_only(default_processor, stripe_health) ==
    /\ default_processor = "stripe"
    /\ stripe_health.status # "frozen"
    /\ RGt(stripe_health.freeze_risk, Pct(70))

\* faulty variant: only the frozen branch, the proactive threshold is not looked at
freeze_check_frozen_only(default_processor, stripe_health) ==
    default_processor = "stripe" /\ stripe_health.status = "frozen"

\* faulty variant: once a request was routed around Stripe, the next ones are too
freeze_check_sticky(default_processor, stripe_health) ==
    \/ default_processor = "stripe" /\ stripe_health.status = "frozen"
    \/ default_processor = "stripe" /\ RGt(stripe_health.freeze_risk, Pct(70))
    \/ decision # None /\ ~decision.raised /\ decision.result.freeze_avoidance

\* the two branches that route around Stripe
freeze_check(default_processor, stripe_health) ==
    \/ default_processor = "stripe" /\ stripe_health.status = "frozen"
    \/ default_processor = "stripe" /\ RGt(stripe_health.freeze_risk, Pct(70))

make_intelligent_routing_decision(amount, description, processor_healths) ==
    LET stripe_health == processor_healths["stripe"]
        default_processor == DefaultProcessorOf[Request(amount, description)]
        freeze_avoidance == freeze_check(default_processor, stripe_health)
        selected_processor ==
            IF freeze_avoidance
            THEN select_stripe_alternative(amount, description, processor_healths)
            ELSE default_processor
    IN  [selected_processor |-> selected_processor,
         confidence |-> IF freeze_avoidance THEN Pct(92) ELSE Pct(95),
         fallback_chain |-> build_fallback_chain(selected_processor, processor_healths),
         risk_assessment |-> stripe_health.status,
         freeze_avoidance |-> freeze_avoidance]

-----------------------------------------------------------------------------
(* ClaudeRouter: processor health tracking (claude_router.py) *)

\* longest failure_history explored
MaxFailures == 2

\* self.processor_health as built by ClaudeRouter.__init__; last_success is
\* "None" or "utcnow", the time of the latest success
InitialProcessorHealth ==
    [p \in {"stripe", "paypal", "visa"} |->
        [frozen |-> FALSE, last_success |-> "None", failure_count |-> 0]]

\* the members of FailureType that are told apart by record_failure
FailureTypes == {"account_frozen", "network_error"}

-----------------------------------------------------------------------------
(* ClaudeRouter: real-time insights (claude_router.py, brave_search_insights.py) *)

\* number of hour changes explored
MaxTicks == 1

\* self._insights_cache = {} and the orchestrator's self.insights_cache = {}
EmptyCache == [key \in {} |-> <<>>]

\* the hour of day at which the router is constructed
FirstHour == 23

-----------------------------------------------------------------------------
(* CircuitBreaker (services/enhanced_insights_manager.py) *)

\* CircuitBreaker.__init__ defaults
failure_threshold == 5
reset_timeout == 60

\* the clock is followed up to this many seconds
MaxSeconds == 180

\* failing calls are followed up to this failure_count
MaxFailureCount == 7

\* CircuitBreaker.__init__
InitialBreaker == [state |-> "CLOSED", failure_count |-> 0, last_failure_time |-> None]

-----------------------------------------------------------------------------
(* EnhancedInsightsManager: rate limit of the live API *)

\* self.rate_limit_max_calls
rate_limit_max_calls == 30

\* number of coroutines calling _check_rate_limit
MaxCoroutines == 2

\* no key rate_limit:brave_api in Redis: GET answers None, INCR counts from 0
NoKey == [value |-> 0, expires |-> FALSE]

-----------------------------------------------------------------------------
(* The state machine: ledger inserts, and the public operations *)

Init ==
    /\ ledger = EmptyLedger
    /\ nInserts = 0
    /\ analysis = None
    /\ healths = None
    /\ decision = None
    /\ factors = <<>>
    /\ aggregate = None
    /\ remembered = None
    /\ router = None
    /\ processor_health = InitialProcessorHealth
    /\ failure_history = <<>>
    /\ insights_cache = EmptyCache
    /\ orchestrator_cache = EmptyCache
    /\ hour = FirstHour
    /\ lookup = None
    /\ enhanced = None
    /\ breaker = InitialBreaker
    /\ now = 0
    /\ call = None
    /\ redis_key = NoKey
    /\ coroutines = [c \in 1..MaxCoroutines |-> [at |-> "idle", current_count |-> 0]]
    /\ granted = 0

\* a payment event writes rows to balance_transactions; results returned for the
\* previous content of the table belong to finished requests
Insert(batch) ==
    /\ nInserts < MaxInserts
    /\ nInserts' = nInserts + 1
    /\ ledger' = [ledger EXCEPT ![batch[1]] = @ + batch[2]]
    /\ analysis' = None
    /\ healths' = None
    /\ decision' = None
    /\ remembered' = None
    /\ UNCHANGED <<factors, aggregate, router, supportVars>>

Analyze ==
    /\ analysis' = analyze_transactions(ledger)
    /\ decision' = None
    /\ UNCHANGED <<ledger, nInserts, healths, factors, aggregate, remembered, router, supportVars>>

AssessHealth ==
    /\ healths' = assess_processor_health(ledger)
    /\ decision' = None
    /\ UNCHANGED <<ledger, nInserts, analysis, factors, aggregate, remembered, router, supportVars>>

\* what process_payment answers when the routing engine raised
payment_fallback ==
    [processor_used |-> "paypal", confidence |-> Pct(80), risk_assessment |-> "fallback_mode"]

\* make_intelligent_routing_decision(amount, currency, description): the health
\* assessment's queries run first and the engine catches nothing they raise
\* (a balance_transactions table that is missing makes the first query raise)
RouteRequest(amount, description, queryRaises) ==
    /\ IF queryRaises
       THEN /\ healths' = None
            /\ decision' = [request |-> Request(amount, description), raised |-> TRUE,
                             fallback |-> payment_fallback]
       ELSE /\ healths' = assess_processor_health(ledger)
            /\ decision' =
                 [request |-> Request(amount, description),
                  raised |-> FALSE,
                  default_processor |-> DefaultProcessorOf[Request(amount, description)],
                  result |-> make_intelligent_routing_decision(amount, description, healths')]
    /\ analysis' = None
    /\ UNCHANGED <<ledger, nInserts, factors, aggregate, router, supportVars>>

Route(amount, description, queryRaises) ==
    /\ RouteRequest(amount, description, queryRaises)
    /\ UNCHANGED remembered

Next ==
    \/ \E batch \in InsertBatches : Insert(batch)
    \/ Analyze
    \/ AssessHealth
    \/ \E r \in Requests, queryRaises \in BOOLEAN :
          Route(r.amount, r.description, queryRaises)

Spec == Init /\ [][Next]_vars

-----------------------------------------------------------------------------
(* The risk aggregator applied to arbitrary factor lists *)

FactorSamples ==
    { RiskFactor(IF rt = "account_level" THEN "account_behavior_change" ELSE "pattern_break",
                 sev, conf, fp, rt, 1) :
        sev \in RiskLevels,
        conf \in {Pct(50), Pct(80), Whole(1)},
        fp \in {Pct(10), Pct(90)},
        rt \in {"account_level", "transaction_level"} }

AddFactor(f) ==
    /\ Len(factors) < MaxFactors
    /\ factors' = Append(factors, f)
    /\ aggregate' = None
    /\ UNCHANGED <<ledger, nInserts, analysis, healths, decision, remembered, router, supportVars>>

\* faulty variant: the factors are popped off the caller's list as they are weighed
risk_factors_after_call_consumed(risk_factors) == <<>>

\* the caller's list after _calculate_overall_risk returned: it was only read
risk_factors_after_call(risk_factors) == risk_factors

Aggregate ==
    /\ aggregate' = calculate_overall_risk(factors)
    /\ factors' = risk_factors_after_call(factors)
    /\ UNCHANGED <<ledger, nInserts, analysis, healths, decision, remembered, router, supportVars>>

NextAggregator ==
    \/ \E f \in FactorSamples : AddFactor(f)
    \/ Aggregate

SpecAggregator == Init /\ [][NextAggregator]_vars

-----------------------------------------------------------------------------
(* Properties *)

WindowCharges     == CountIn(FetchWindow(ledger), ChargeRows)
WindowRefunds     == CountIn(FetchWindow(ledger), RefundRows)
WindowAdjustments == CountIn(FetchWindow(ledger), AdjustmentRows)
WindowRowCount    == CountIn(FetchWindow(ledger), RowKinds)

Routed == decision # None /\ ~decision.raised

SeqToSet(s) == {s[i] : i \in 1..Len(s)}
NoDuplicates(s) == \A i, j \in 1..Len(s) : s[i] = s[j] => i = j

\* C1: whenever the window holds at least one charge and adjustments / charges
\* >= 0.01, the risk analysis of that window is critical and the health assessed
\* for Stripe on that window is frozen, whatever else the window holds.
C1_ChargebackRateFreezes ==
    (WindowCharges >= 1 /\ WindowAdjustments * 100 >= WindowCharges) =>
        /\ analysis # None => analysis.overall_risk = "critical"
        /\ healths # None => healths["stripe"].status = "frozen"

\* a window exactly at the threshold (1 adjustment, 100 charges), analysed and assessed
C1_Witness ==
    /\ WindowCharges = 100
    /\ WindowAdjustments = 1
    /\ analysis # None /\ analysis.overall_risk = "critical"
    /\ healths # None /\ healths["stripe"].status = "frozen"

\* C2: in every routing decision returned, if the default processor of the
\* request has health status frozen then the selected processor differs from the
\* default and freeze_avoidance is set.
C2_FreezeAvoidance ==
    (Routed /\ healths[decision.default_processor].status = "frozen") =>
        /\ decision.result.selected_processor # decision.default_processor
        /\ decision.result.freeze_avoidance

C2_Witness ==
    /\ Routed
    /\ decision.default_processor = "stripe"
    /\ healths["stripe"].status = "frozen"
    /\ decision.result.selected_processor # "stripe"
    /\ decision.result.freeze_avoidance

\* C3: the fallback chain of every routing decision returned does not contain the
\* selected processor, contains no processor whose status is frozen, contains no
\* processor twice and has at most 3 entries.
C3_FallbackChain ==
    Routed =>
        LET chain == decision.result.fallback_chain
        IN  /\ decision.result.selected_processor \notin SeqToSet(chain)
            /\ \A p \in SeqToSet(chain) : p \in Processors /\ healths[p].status # "frozen"
            /\ NoDuplicates(chain)
            /\ Len(chain) <= 3

\* a decision taken while Stripe is frozen and another processor is selected:
\* Stripe is the candidate of highest freeze risk and still not in the chain
C3_Witness ==
    /\ Routed
    /\ healths["stripe"].status = "frozen"
    /\ decision.result.selected_processor # "stripe"
    /\ Len(decision.result.fallback_chain) = 3

\* C4: for every window without a charge (empty, or holding only refunds and
\* adjustments) the analysis returns overall_risk low and freeze_probability 0.0.
C4_ZeroChargesLowRisk ==
    (analysis # None /\ WindowCharges = 0) =>
        /\ analysis.overall_risk = "low"
        /\ analysis.freeze_probability = Whole(0)

StatusImage(risk) ==
    IF risk = "critical" THEN "frozen" ELSE IF risk = "high" THEN "warning" ELSE "healthy"

C6_AlternativesOnlyBoosted ==
    (healths # None /\ healths["stripe"].status \in {"frozen", "warning"}) =>
        \A p \in Processors \ {"stripe"} :
            RLt(healths[p].freeze_risk,
                assess_alternative_processor_health(p, "healthy").freeze_risk)

\* C7: every routing request ends with a RoutingDecision that names a processor
\* of the capability table and a fallback chain; a failing ledger query does not
\* reach the caller.
C7_AlwaysADecision ==
    decision # None =>
        /\ ~decision.raised
        /\ decision.result.selected_processor \in Processors
        /\ SeqToSet(decision.result.fallback_chain) \subseteq Processors

AccountPatterns == {"volume_spike", "refund_surge", "chargeback_pattern", "velocity_anomaly"}

HasPattern(a, pattern) ==
    \E i \in 1..Len(a.identified_patterns) : a.identified_patterns[i].pattern = pattern

NoAccountAssessorFired(a) == \A pattern \in AccountPatterns : ~HasPattern(a, pattern)

\* C8: when none of the four account-level assessors fires, the analysis is low
\* with a freeze_probability of at most 0.06, whatever the amounts and
\* descriptions of the charges.
C8_AmountIsNoRiskSignal ==
    (analysis # None /\ NoAccountAssessorFired(analysis)) =>
        /\ analysis.overall_risk = "low"
        /\ RLeq(analysis.freeze_probability, Pct(6))

\* a window with a charge of 100000 and a charge of suspicious description
C8_Witness ==
    /\ analysis # None /\ NoAccountAssessorFired(analysis)
    /\ HasPattern(analysis, "high_value_transaction")
    /\ HasPattern(analysis, "suspicious_description")
    /\ analysis.freeze_probability = Pct(6)

-----------------------------------------------------------------------------
(* The aggregator's results, restated in whole hundredths *)

Hundredths(x) == (x[1] * 100) \div x[2]

SpecifiedWeight(severity) ==
    IF severity = "low" THEN 1 ELSE IF severity = "medium" THEN 2
    ELSE IF severity = "high" THEN 4 ELSE 8

RECURSIVE SumTo(_, _)
SumTo(f, n) == IF n = 0 THEN 0 ELSE f[n] + SumTo(f, n - 1)

RECURSIVE MaxTo(_, _)
MaxTo(f, n) == IF n = 0 THEN 0 ELSE LET m == MaxTo(f, n - 1) IN IF f[n] > m THEN f[n] ELSE m

\* accountWeight and transactionWeight, times 100
SpecifiedAccountWeight(fs) ==
    SumTo([i \in 1..Len(fs) |->
             IF fs[i].risk_type = "account_level"
             THEN SpecifiedWeight(fs[i].severity) * Hundredths(fs[i].confidence) * 5 ELSE 0],
          Len(fs))

SpecifiedTransactionWeight(fs) ==
    SumTo([i \in 1..Len(fs) |->
             IF fs[i].risk_type = "transaction_level"
             THEN SpecifiedWeight(fs[i].severity) * Hundredths(fs[i].confidence) ELSE 0],
          Len(fs))

SpecifiedOverallRisk(fs) ==
    IF \E i \in 1..Len(fs) : fs[i].risk_type = "account_level" /\ fs[i].severity = "critical"
    THEN "critical"
    ELSE IF SpecifiedAccountWeight(fs) >= 1600 THEN "high"
    ELSE IF SpecifiedAccountWeight(fs) + SpecifiedTransactionWeight(fs) >= 800 THEN "medium"
    ELSE "low"

\* max(maxAccountFreezeProb, 0.2 * maxTransactionFreezeProb), times 10000
SpecifiedFreezeProbability(fs) ==
    LET acc == MaxTo([i \in 1..Len(fs) |->
                        IF fs[i].risk_type = "account_level"
                        THEN Hundredths(fs[i].freeze_probability) * 100 ELSE 0], Len(fs))
        txn == MaxTo([i \in 1..Len(fs) |->
                        IF fs[i].risk_type = "transaction_level"
                        THEN Hundredths(fs[i].freeze_probability) * 20 ELSE 0], Len(fs))
    IN  IF acc >= txn THEN acc ELSE txn

EqualsTenThousandths(x, n) == x[1] * 10000 = n * x[2]

\* C9: the aggregator's overall risk is critical if an account-level factor is
\* critical, else high if accountWeight >= 16, else medium if accountWeight +
\* transactionWeight >= 8, else low.
C9_OverallRiskRule ==
    aggregate # None => aggregate.overall_risk = SpecifiedOverallRisk(factors)

\* one account-level factor of severity high and confidence 0.8: weight exactly 16
C9_Witness ==
    /\ aggregate # None
    /\ Len(factors) = 1
    /\ factors[1].risk_type = "account_level"
    /\ factors[1].severity = "high"
    /\ factors[1].confidence = Pct(80)
    /\ aggregate.overall_risk = "high"

\* C10: for every factor list, the empty one included, the aggregator's
\* freeze_probability is max(max account-level probability, 0.2 * max
\* transaction-level probability), a maximum over no factors being 0.
C10_FreezeProbabilityIsMax ==
    aggregate # None =>
        EqualsTenThousandths(aggregate.freeze_probability, SpecifiedFreezeProbability(factors))

-----------------------------------------------------------------------------
(* Routing decisions: trigger of freeze avoidance, default selection *)

DefaultAtRisk ==
    \/ healths[decision.default_processor].status = "frozen"
    \/ RGt(healths[decision.default_processor].freeze_risk, Pct(70))

\* C11: in every routing decision freeze avoidance is triggered exactly when the
\* default processor is frozen or its freeze_risk is > 0.7; then freeze_avoidance
\* is true and another processor is selected, otherwise freeze_avoidance is false
\* and the default processor is selected.
C11_FreezeAvoidanceExactly ==
    Routed =>
        IF DefaultAtRisk
        THEN /\ decision.result.freeze_avoidance
             /\ decision.result.selected_processor # decision.default_processor
        ELSE /\ ~decision.result.freeze_avoidance
             /\ decision.result.selected_processor = decision.default_processor

\* the proactive case: Stripe is the default, not frozen, with freeze_risk 0.85
C11_Witness ==
    /\ Routed
    /\ decision.default_processor = "stripe"
    /\ healths["stripe"].status = "warning"
    /\ healths["stripe"].freeze_risk = Pct(85)
    /\ decision.result.freeze_avoidance
    /\ decision.result.selected_processor # "stripe"

\* the categories of the routed descriptions, read off their words
CryptoDescriptions == {DescNFT}
B2BDescriptions == {DescSubscription, DescEnterprise, DescBusinessMarket, DescBusinessRetail}
MarketplaceDescriptions == {DescNFT, DescConsumer, DescBusinessMarket, DescEcommerceStore}
RetailDescriptions == {DescRetail, DescEcommerceStore, DescGlobalRetail, DescBusinessRetail}
InternationalDescriptions == {DescGlobal, DescGlobalRetail}

SpecifiedDefault(r) ==
    IF r.amount > 100000 THEN "visa"
    ELSE IF r.description \in CryptoDescriptions THEN "crossmint"
    ELSE IF r.description \in B2BDescriptions THEN "stripe"
    ELSE IF r.description \in MarketplaceDescriptions THEN "paypal"
    ELSE IF r.description \in RetailDescriptions THEN "square"
    ELSE IF r.description \in InternationalDescriptions THEN "adyen"
    ELSE "stripe"

\* C12: the default processor is Visa for an amount above 100000 cents whatever
\* the description; otherwise the first matching category in the order crypto
\* (Crossmint), B2B (Stripe), marketplace (PayPal), retail (Square), international
\* (Adyen); otherwise Stripe.  "Enterprise software license" at 2,500,000 gives
\* Visa and "NFT marketplace purchase" at 20000 gives Crossmint.
C12_DefaultSelectionPriority ==
    Routed =>
        /\ decision.default_processor = SpecifiedDefault(decision.request)
        /\ decision.request = Request(2500000, DescEnterprise) =>
              decision.default_processor = "visa"
        /\ decision.request = Request(20000, DescNFT) =>
              decision.default_processor = "crossmint"

\* a B2B description above the enterprise threshold: the amount rule wins
C12_Witness ==
    /\ Routed
    /\ decision.request = Request(2500000, DescEnterprise)
    /\ decision.default_processor = "visa"

-----------------------------------------------------------------------------
(* Routing requests one after the other against one ledger *)

\* the batches inserted between the requests
RoutingBatches == {<<"charge_a", 10>>, <<"refund_a", 1>>, <<"adjustment_a", 1>>}

\* a routing request; the first decision returned for a ledger is kept aside, with
\* a mark telling whether another decision was returned after it
RouteRemembering(amount, description, queryRaises) ==
    /\ RouteRequest(amount, description, queryRaises)
    /\ remembered' =
          IF queryRaises THEN remembered
          ELSE IF remembered = None
               THEN [request |-> decision'.request, result |-> decision'.result, later |-> 0]
               ELSE [remembered EXCEPT !.later = 1]

NextRouting ==
    \/ \E batch \in RoutingBatches : Insert(batch)
    \/ AssessHealth
    \/ \E r \in Requests, queryRaises \in BOOLEAN :
          RouteRemembering(r.amount, r.description, queryRaises)

SpecRouting == Init /\ [][NextRouting]_vars

-----------------------------------------------------------------------------
(* The risk aggregator called again *)

-----------------------------------------------------------------------------
(* The account-level assessors on the window of a ledger *)

\* freeze_probability of the refund-surge factor of a ledger's window, 0 if none
RefundSurgeProbability(db) ==
    LET f == analyze_refund_patterns(FetchWindow(db))
    IN  IF f = <<>> THEN Whole(0) ELSE f[1].freeze_probability

OnlyRefundsAdded ==
    /\ \A k \in RowKinds \ RefundRows : ledger'[k] = ledger[k]
    /\ \A k \in RefundRows : ledger'[k] >= ledger[k]

\* C15: between two windows with the same charges, the second with at least as
\* many refunds, the freeze_probability of the refund-surge factor (0 when it
\* does not fire) does not decrease.
C15_RefundSurgeMonotone ==
    [][OnlyRefundsAdded =>
          RLeq(RefundSurgeProbability(ledger), RefundSurgeProbability(ledger'))]_vars

\* 10 charges: one refund gave 0.5, the second refund gives 0.75
C15_Witness ==
    /\ WindowCharges = 10 /\ WindowRefunds = 2
    /\ analysis # None
    /\ \E i \in 1..Len(analysis.identified_patterns) :
          /\ analysis.identified_patterns[i].pattern = "refund_surge"
          /\ analysis.identified_patterns[i].freeze_probability = Pct(75)

\* hours in which the charges of the window fall (at least 1)
HoursSpanned ==
    LET inA == ledger["charge_a"] + ledger["big_charge"] > 0
        inB == ledger["charge_b"] + ledger["suspicious_charge"] > 0
    IN  IF inA /\ inB THEN 2 ELSE 1

\* charges of the last 30 days, those of the window included
ChargesIn30Days == WindowCharges + ledger["old_charge"]

\* multiplier >= bound, for multiplier = (chargeCount / hoursSpanned * 24) /
\* (ChargesIn30Days / 30); without a charge the multiplier is 0
MultiplierAtLeast(bound) ==
    /\ WindowCharges > 0
    /\ WindowCharges * 24 * 30 >= bound * HoursSpanned * ChargesIn30Days

VolumeSpikeFactors ==
    { analysis.identified_patterns[i] :
        i \in { j \in 1..Len(analysis.identified_patterns) :
                  analysis.identified_patterns[j].pattern = "volume_spike" } }

ChargesInHourA == ledger["charge_a"] + ledger["big_charge"]
ChargesInHourB == ledger["charge_b"] + ledger["suspicious_charge"]
RowsInHourA == ChargesInHourA + ledger["refund_a"] + ledger["adjustment_a"]
RowsInHourB == ChargesInHourB

VelocityFactors ==
    { analysis.identified_patterns[i] :
        i \in { j \in 1..Len(analysis.identified_patterns) :
                  analysis.identified_patterns[j].pattern = "velocity_anomaly" } }

VelocityFactorShape ==
    \A f \in VelocityFactors : f.severity = "high" /\ f.freeze_probability = Pct(60)

-----------------------------------------------------------------------------
(* The classification of the factors of an analysis *)

TransactionPatterns == {"high_value_transaction", "suspicious_description"}

\* C18: in every analysis each of the four account-level assessors contributes
\* at most one factor, account_level_risks and transaction_level_risks are
\* disjoint and together are exactly identified_patterns, every factor of the
\* four account-level patterns is in account_level_risks and every
\* high_value_transaction or suspicious_description factor is in
\* transaction_level_risks.
C18_FactorsClassifiedOnce ==
    analysis # None =>
        LET all == analysis.identified_patterns
            acc == analysis.account_level_risks
            txn == analysis.transaction_level_risks
        IN  /\ \A pattern \in AccountPatterns :
                  Cardinality({i \in 1..Len(all) : all[i].pattern = pattern}) <= 1
            /\ SeqToSet(acc) \cap SeqToSet(txn) = {}
            /\ SeqToSet(acc) \cup SeqToSet(txn) = SeqToSet(all)
            /\ Len(acc) + Len(txn) = Len(all)
            /\ \A i \in 1..Len(all) :
                  /\ all[i].pattern \in AccountPatterns =>
                        all[i] \in SeqToSet(acc) /\ all[i].risk_type = "account_level"
                  /\ all[i].pattern \in TransactionPatterns =>
                        all[i] \in SeqToSet(txn) /\ all[i].risk_type = "transaction_level"
                  /\ all[i].pattern \in AccountPatterns \cup TransactionPatterns

\* an analysis with factors of both kinds
C18_Witness ==
    /\ analysis # None
    /\ Len(analysis.account_level_risks) >= 2
    /\ Len(analysis.transaction_level_risks) = 2
    /\ Len(analysis.identified_patterns) >= 4

-----------------------------------------------------------------------------
(* claude_client.py: ClaudeClient, and claude_router.py: ClaudeRouter *)

MaxAvailable == 3
MaxLines == 2

\* ids of the processors a caller can pass as available_processors
RouterProcessors == {"stripe", "paypal", "visa", "square"}

\* the lists without duplicates of at most n elements of S
RECURSIVE ListsUpTo(_, _)
ListsUpTo(S, n) ==
    IF n = 0 THEN {<<>>}
    ELSE LET shorter == ListsUpTo(S, n - 1)
             longest == {l \in shorter : Len(l) = n - 1}
         IN  shorter \cup
             { Append(p[1], p[2]) :
                 p \in {q \in longest \X S : q[2] \notin SeqToSet(q[1])} }

AvailableLists == ListsUpTo(RouterProcessors, MaxAvailable)

\* a line of the advisor's answer: whether it holds "select", "choose" or
\* "recommend", and the processor ids it holds
AdvisorLine(verb, mentions) == [verb |-> verb, mentions |-> mentions]

AdvisorLines ==
    { AdvisorLine(TRUE, mentions) :
        mentions \in { {}, {"paypal"}, {"square"}, {"visa", "adyen"}, {"stripe", "paypal"} } }
    \cup { AdvisorLine(FALSE, {"paypal"}) }

RECURSIVE TextsUpTo(_)
TextsUpTo(n) ==
    IF n = 0 THEN {<<>>}
    ELSE LET shorter == TextsUpTo(n - 1)
         IN  shorter \cup { Append(t, l) : t \in {s \in shorter : Len(s) = n - 1},
                                            l \in AdvisorLines }

AdvisorTexts == TextsUpTo(MaxLines)

\* the ids _parse_routing_decision looks for, in its order
parser_processor_ids == <<"stripe", "paypal", "visa", "square", "adyen">>

\* for processor_id in [...]: if processor_id in line.lower(): ...; break
first_mentioned(mentions, selected) ==
    LET hits == {i \in 1..Len(parser_processor_ids) : parser_processor_ids[i] \in mentions}
    IN  IF hits = {} THEN selected
        ELSE parser_processor_ids[CHOOSE i \in hits : \A j \in hits : i <= j]

RECURSIVE parsed_selection(_, _)
parsed_selection(lines, selected) ==
    IF lines = <<>> THEN selected
    ELSE parsed_selection(Tail(lines),
                          IF Head(lines).verb
                          THEN first_mentioned(Head(lines).mentions, selected)
                          ELSE selected)

parse_routing_decision(decision_text) ==
    LET selected_processor == parsed_selection(decision_text, "stripe")
    IN  [selected_processor |-> selected_processor,
         confidence |-> Pct(80),
         fallback_chain |-> IF selected_processor = "stripe"
                            THEN <<"paypal", "visa">> ELSE <<"stripe", "visa">>]

fallback_routing_decision ==
    [selected_processor |-> "stripe", confidence |-> Pct(50),
     fallback_chain |-> <<"paypal", "visa">>, error |-> TRUE]

\* ClaudeClient.make_routing_decision: an exception of the API call is caught
client_make_routing_decision(apiFails, decision_text) ==
    IF apiFails THEN fallback_routing_decision
    ELSE parse_routing_decision(decision_text)

\* dict.get(key, default)
Get(d, key, default) == IF key \in DOMAIN d THEN d[key] ELSE default

\* faulty variant: the advisor's choice is taken without the membership test
make_routing_decision_trusting(available_processors, advisor) ==
    LET default_processor ==
            IF available_processors # <<>> THEN available_processors[1] ELSE "stripe"
    IN  [selected_processor |-> Get(advisor, "selected_processor", default_processor),
         confidence |-> Get(advisor, "confidence", Pct(80)),
         fallback_chain |->
             Get(advisor, "fallback_chain",
                 IF available_processors = <<>> THEN <<>> ELSE Tail(available_processors))]

\* ClaudeRouter.make_routing_decision, from the advisor's answer on;
\* available_processors is the list of the ids of the processors passed
make_routing_decision(available_processors, advisor) ==
    LET default_processor ==
            IF available_processors # <<>> THEN available_processors[1] ELSE "stripe"
        claude_selected == Get(advisor, "selected_processor", default_processor)
        selected_processor ==
            IF claude_selected \notin SeqToSet(available_processors)
               /\ available_processors # <<>>
            THEN default_processor
            ELSE claude_selected
    IN  [selected_processor |-> selected_processor,
         confidence |-> Get(advisor, "confidence", Pct(80)),
         fallback_chain |->
             Get(advisor, "fallback_chain",
                 IF available_processors = <<>> THEN <<>> ELSE Tail(available_processors))]

RouterCall(available_processors, apiFails, decision_text) ==
    /\ router' =
          LET advisor == client_make_routing_decision(apiFails, decision_text)
          IN  [available_processors |-> available_processors,
               processor_health |-> processor_health,
               advisor |-> advisor,
               routing |-> make_routing_decision(available_processors, advisor)]
    /\ UNCHANGED <<ledger, nInserts, analysis, healths, decision, factors, aggregate,
                   remembered, supportVars>>

NextRouter ==
    \/ \E available \in AvailableLists, text \in AdvisorTexts :
          RouterCall(available, FALSE, text)
    \/ \E available \in AvailableLists : RouterCall(available, TRUE, <<>>)

SpecRouter == Init /\ [][NextRouter]_vars

RouterReturned == router # None /\ router.available_processors # <<>>

\* C19: whatever the advisor returns (any processor id, none, or a failure of
\* its call), the decision returned for a non-empty available_processors list
\* selects a member of that list, the first one when the advisor's choice is not
\* a member.
C19_SelectedIsAvailable ==
    RouterReturned =>
        LET available == router.available_processors
            selected == router.routing.selected_processor
        IN  /\ selected \in SeqToSet(available)
            /\ selected =
                  IF router.advisor.selected_processor \in SeqToSet(available)
                  THEN router.advisor.selected_processor
                  ELSE available[1]

\* the advisor named visa, which is not available: the first of the list is used
C19_Witness ==
    /\ RouterReturned
    /\ router.advisor.selected_processor = "visa"
    /\ router.available_processors = <<"square", "paypal">>
    /\ router.routing.selected_processor = "square"

\* C20: in every decision of the router the fallback_chain has no duplicates,
\* does not contain selected_processor and contains only ids of available
\* processors, whatever the advisor answered.
C20_RouterFallbackChain ==
    RouterReturned =>
        LET chain == router.routing.fallback_chain
        IN  /\ NoDuplicates(chain)
            /\ router.routing.selected_processor \notin SeqToSet(chain)
            /\ SeqToSet(chain) \subseteq SeqToSet(router.available_processors)

-----------------------------------------------------------------------------
(* ClaudeRouter: recording failures and successes, then routing *)

\* ClaudeRouter.record_failure
record_failure(processor_id, failure_type, permanent) ==
    /\ Len(failure_history) < MaxFailures
    /\ failure_history' =
          Append(failure_history,
                 [processor_id |-> processor_id, failure_type |-> failure_type,
                  permanent |-> permanent])
    /\ processor_health' =
          IF processor_id \in DOMAIN processor_health
          THEN [processor_health EXCEPT
                   ![processor_id].failure_count = @ + 1,
                   ![processor_id].frozen =
                       IF permanent \/ failure_type = "account_frozen" THEN TRUE ELSE @]
          ELSE processor_health
    /\ UNCHANGED <<ledger, nInserts, analysis, healths, decision, factors, aggregate,
                   remembered, router, insightVars, breakerVars, limiterVars>>

\* ClaudeRouter.record_success
record_success(processor_id) ==
    /\ processor_health' =
          IF processor_id \in DOMAIN processor_health
          THEN [processor_health EXCEPT
                   ![processor_id].last_success = "utcnow",
                   ![processor_id].failure_count = 0]
          ELSE processor_health
    /\ UNCHANGED <<ledger, nInserts, analysis, healths, decision, factors, aggregate,
                   remembered, router, failure_history, insightVars, breakerVars, limiterVars>>

\* processors that fail or succeed: a tracked one and one that
\* processor_health does not track
ReportedProcessors == {"stripe", "square"}

\* available_processors lists of the routing requests that follow the reports
HealthAvailableLists ==
    {<<"stripe", "paypal">>, <<"paypal", "stripe">>, <<"stripe">>}

NextHealth ==
    \/ \E p \in ReportedProcessors, t \in FailureTypes, permanent \in BOOLEAN :
          record_failure(p, t, permanent)
    \/ \E p \in ReportedProcessors : record_success(p)
    \/ \E available \in HealthAvailableLists, text \in TextsUpTo(1) :
          RouterCall(available, FALSE, text)
    \/ \E available \in HealthAvailableLists : RouterCall(available, TRUE, <<>>)

SpecHealth == Init /\ [][NextHealth]_vars

\* the processors that a processor_health map marks frozen
FrozenIn(health) == {p \in DOMAIN health : health[p].frozen}

\* C21: once record_failure has marked p frozen (failure type ACCOUNT_FROZEN
\* or a permanent failure), no later routing decision selects p while the
\* list it chooses from holds a processor that is not frozen, whatever the
\* advisor names and also when its call fails.  router.processor_health is
\* the health map at the time of the decision, as handed to the advisor.
C21_FrozenRoutedAround ==
    RouterReturned =>
        LET available == SeqToSet(router.available_processors)
            frozen == FrozenIn(router.processor_health)
        IN  (available \ frozen # {}) =>
                router.routing.selected_processor \notin frozen
-----------------------------------------------------------------------------
(* Real-time insights: fetching, caching and applying them *)

\* a dict without keys
EmptyDict == [key \in {} |-> <<>>]

\* composite scores of a processor in good and in poor standing
GoodScores ==
    [fraud_risk |-> Pct(20), service_reliability |-> Pct(95), market_confidence |-> Pct(85),
     cost_effectiveness |-> Pct(80), compliance_score |-> Pct(90), overall_health |-> Pct(85)]
PoorScores ==
    [fraud_risk |-> Pct(80), service_reliability |-> Pct(40), market_confidence |-> Pct(30),
     cost_effectiveness |-> Pct(20), compliance_score |-> Pct(50), overall_health |-> Pct(30)]

\* what the searches can find out about the processors: all in poor standing
\* or, with the searches for stripe failing (fallback insights carrying
\* "error"), the others in good standing
SearchOutcomes ==
    { [p \in RouterProcessors |-> [composite_scores |-> PoorScores]],
      [p \in RouterProcessors |->
          IF p = "stripe"
          THEN [composite_scores |-> GoodScores, error |-> "search failed"]
          ELSE [composite_scores |-> GoodScores]] }

Clamp(lo, x, hi) == RMax(lo, RMin(hi, x))

\* get_routing_adjustments: the adjustments of one processor
processor_adjustments(processor_insights) ==
    LET composite_scores == Get(processor_insights, "composite_scores", EmptyDict)
        score(name) == Get(composite_scores, name, Whole(0))
        when(cond, x) == IF cond THEN x ELSE Whole(0)
        tag(cond, text) == IF cond THEN <<text>> ELSE <<>>
        fraud_high == RGt(score("fraud_risk"), Pct(70))
        fraud_low == ~fraud_high /\ RLt(score("fraud_risk"), Pct(30))
        service_poor == RLt(score("service_reliability"), Pct(50))
        service_excellent == ~service_poor /\ RGt(score("service_reliability"), Pct(90))
        market_poor == RLt(score("market_confidence"), Pct(40))
        market_strong == ~market_poor /\ RGt(score("market_confidence"), Pct(80))
        promotions == RGt(score("cost_effectiveness"), Pct(70))
        compliant == RGt(score("compliance_score"), Pct(80))
        health_excellent == RGt(score("overall_health"), Pct(80))
        health_poor == ~health_excellent /\ RLt(score("overall_health"), Pct(40))
    IN  [fee_adjustment |->
            Clamp(Whole(-2), when(promotions, Pct(-50)), Whole(1)),
         reliability_bonus |->
            Clamp(Whole(0),
                  RAdd(when(fraud_low, Pct(10)),
                       RAdd(when(service_excellent, Pct(15)), when(compliant, Pct(10)))),
                  Pct(30)),
         priority_boost |->
            Clamp(Pct(-50),
                  RAdd(when(fraud_high, Pct(-20)),
                       RAdd(when(service_poor, Pct(-30)),
                            RAdd(when(market_strong, Pct(10)),
                                 RAdd(when(health_excellent, Pct(20)),
                                      when(health_poor, Pct(-20)))))),
                  Pct(50)),
         risk_penalty |->
            Clamp(Whole(0),
                  RAdd(when(fraud_high, Pct(30)),
                       RAdd(when(service_poor, Pct(40)),
                            RAdd(when(market_poor, Pct(20)), when(health_poor, Pct(30))))),
                  Pct(50)),
         reasons |->
            tag(fraud_high, "High fraud risk") \o tag(fraud_low, "Low fraud risk")
            \o tag(service_poor, "Service reliability issues")
            \o tag(service_excellent, "Excellent service reliability")
            \o tag(market_poor, "Poor market sentiment")
            \o tag(market_strong, "Strong market confidence")
            \o tag(promotions, "Active promotions")
            \o tag(compliant, "Strong compliance profile")
            \o tag(health_excellent, "Excellent overall health")
            \o tag(health_poor, "Poor overall health")]

\* PaymentInsightsOrchestrator.get_routing_adjustments
get_routing_adjustments(insights) ==
    [processor_id \in {p \in DOMAIN insights : "error" \notin DOMAIN insights[p]} |->
        processor_adjustments(insights[processor_id])]

\* PaymentInsightsOrchestrator.fetch_all_insights: the orchestrator's cache key
all_insights_key(processors) == <<"all_insights", processors, hour>>

\* fetch_all_insights: what it returns, from its cache or from the searches
fetch_all_insights(processors, found) ==
    IF all_insights_key(processors) \in DOMAIN orchestrator_cache
    THEN orchestrator_cache[all_insights_key(processors)]
    ELSE [p \in SeqToSet(processors) |-> found[p]]

\* fetch_all_insights: the orchestrator's cache after the call
orchestrator_cache_after(processors, found) ==
    (all_insights_key(processors) :> fetch_all_insights(processors, found))
        @@ orchestrator_cache

-----------------------------------------------------------------------------
(* _apply_insights_to_processors *)

\* the processor dicts handed to the router; square comes without fee,
\* metrics and priority_score
ProcessorDicts ==
    { [id |-> "stripe", fee_percentage |-> Rat(29, 10),
       metrics |-> [success_rate |-> Pct(95)], priority_score |-> Pct(80)],
      [id |-> "paypal", fee_percentage |-> Pct(349),
       metrics |-> [success_rate |-> Pct(93)], priority_score |-> Pct(60)],
      [id |-> "visa", fee_percentage |-> Pct(250),
       metrics |-> [success_rate |-> Pct(99)], priority_score |-> Pct(60)],
      [id |-> "square"] }

\* the lists of processor dicts passed: up to MaxAvailable distinct processors
ProcessorLists ==
    { l \in UNION {[1..n -> ProcessorDicts] : n \in 0..MaxAvailable} : NoDuplicates(l) }

ids_of(processors) == [i \in 1..Len(processors) |-> processors[i].id]

\* the body of the loop: one enhanced processor
enhanced_processor(processor, insights_adjustments) ==
    LET current_fee == Get(processor, "fee_percentage", Rat(29, 10))
        current_success_rate ==
            Get(Get(processor, "metrics", EmptyDict), "success_rate", Pct(95))
        priority_score == Get(processor, "priority_score", Pct(50))
    IN  IF processor.id \in DOMAIN insights_adjustments
        THEN LET adjustments == insights_adjustments[processor.id]
                 fee_adjustment == Get(adjustments, "fee_adjustment", Whole(0))
                 reliability_bonus == Get(adjustments, "reliability_bonus", Whole(0))
                 priority_boost == Get(adjustments, "priority_boost", Whole(0))
             IN  [effective_fee_percentage |-> RMax(Whole(0), RAdd(current_fee, fee_adjustment)),
                  adjusted_success_rate |->
                      RMin(Whole(1), RAdd(current_success_rate, reliability_bonus)),
                  priority_score |-> RAdd(priority_score, priority_boost),
                  insights_applied |->
                      [fee_adjustment |-> fee_adjustment,
                       reliability_bonus |-> reliability_bonus,
                       priority_boost |-> priority_boost,
                       reasons |-> Get(adjustments, "reasons", <<>>)]] @@ processor
        ELSE [effective_fee_percentage |-> current_fee,
              adjusted_success_rate |-> current_success_rate,
              priority_score |-> priority_score,
              insights_applied |-> [reasons |-> <<"No real-time insights available">>]]
             @@ processor

\* list.sort(key=priority_score, reverse=True): stable, higher score first
RECURSIVE sort_by_priority(_)
sort_by_priority(processors) ==
    IF processors = <<>> THEN <<>>
    ELSE LET n == Len(processors)
             last == processors[n]
             before == sort_by_priority(SubSeq(processors, 1, n - 1))
             keep == Cardinality({i \in 1..Len(before) :
                                     RGeq(before[i].priority_score, last.priority_score)})
         IN  SubSeq(before, 1, keep) \o <<last>> \o SubSeq(before, keep + 1, Len(before))

\* faulty variant: processors without insights are left out
apply_insights_to_processors_insights_only(processors, insights_adjustments) ==
    LET all == [i \in 1..Len(processors) |->
                   enhanced_processor(processors[i], insights_adjustments)]
    IN  sort_by_priority(
            SelectSeqBy(all, [p \in SeqToSet(all) |-> p.id \in DOMAIN insights_adjustments]))

\* ClaudeRouter._apply_insights_to_processors
apply_insights_to_processors(processors, insights_adjustments) ==
    sort_by_priority([i \in 1..Len(processors) |->
                         enhanced_processor(processors[i], insights_adjustments)])

-----------------------------------------------------------------------------
(* The insights cache of the router *)

\* cache keys f"insights_{hour}" and f"periodic_{hour}"
insights_key(h) == <<"insights", h>>
periodic_key(h) == <<"periodic", h>>

\* ClaudeRouter._cleanup_router_cache: of the keys holding "insights_", those
\* more than one hour away from the current hour are deleted
cleanup_router_cache(cache) ==
    LET expired == {key \in DOMAIN cache :
                       key[1] = "insights" /\ Abs(hour - key[2]) > 1}
    IN  [key \in DOMAIN cache \ expired |-> cache[key]]

\* the adjustment maps handed to _apply_insights_to_processors directly: none,
\* the one of test_simple_integration.py, an entry without values, and those
\* derived from insights
AdjustmentMaps ==
    { EmptyDict,
      [p \in {"stripe"} |->
          [fee_adjustment |-> Pct(-30), reliability_bonus |-> Pct(1),
           priority_boost |-> Pct(20), reasons |-> <<"Mock promotion: 0.3% discount">>]],
      [p \in {"paypal"} |-> EmptyDict] }
    \cup {get_routing_adjustments(found) : found \in SearchOutcomes}

\* a direct call of _apply_insights_to_processors
ApplyInsights(processors, insights_adjustments) ==
    /\ enhanced' = [processors |-> processors,
                    insights_adjustments |-> insights_adjustments,
                    enhanced_processors |->
                        apply_insights_to_processors(processors, insights_adjustments)]
    /\ UNCHANGED <<ledger, nInserts, analysis, healths, decision, factors, aggregate,
                   remembered, router, healthVars, insights_cache, orchestrator_cache,
                   hour, lookup, breakerVars, limiterVars>>

\* make_routing_decision up to the advisor: _get_realtime_insights, then
\* _apply_insights_to_processors; found is what the searches find if made
RealtimeInsights(processors, complexity, found) ==
    LET processor_ids == ids_of(processors)
        cache_key == insights_key(hour)
        cached_insights == insights_cache[cache_key]
        filtered_insights ==
            [pid \in DOMAIN cached_insights \cap SeqToSet(processor_ids) |->
                cached_insights[pid]]
        hit == /\ cache_key \in DOMAIN insights_cache
               /\ DOMAIN filtered_insights # {}
        fetches == complexity # "simple" /\ ~hit
        insights == fetch_all_insights(processor_ids, found)
        insights_adjustments ==
            IF complexity = "simple" THEN EmptyDict
            ELSE IF hit THEN get_routing_adjustments(filtered_insights)
            ELSE get_routing_adjustments(insights)
    IN  /\ insights_cache' =
              IF fetches THEN (cache_key :> insights) @@ insights_cache
              ELSE insights_cache
        /\ orchestrator_cache' =
              IF fetches THEN orchestrator_cache_after(processor_ids, found)
              ELSE orchestrator_cache
        /\ lookup' = [hour |-> hour, complexity |-> complexity,
                      processor_ids |-> processor_ids,
                      periodic_stored |-> periodic_key(hour) \in DOMAIN insights_cache,
                      from_router_cache |-> complexity # "simple" /\ hit,
                      fetch_all_insights_called |-> fetches,
                      searched |->
                          fetches /\ all_insights_key(processor_ids)
                                        \notin DOMAIN orchestrator_cache,
                      insights_adjustments |-> insights_adjustments]
        /\ enhanced' = [processors |-> processors,
                        insights_adjustments |-> insights_adjustments,
                        enhanced_processors |->
                            apply_insights_to_processors(processors, insights_adjustments)]
        /\ UNCHANGED <<ledger, nInserts, analysis, healths, decision, factors, aggregate,
                       remembered, router, healthVars, hour, breakerVars, limiterVars>>

\* one round of ClaudeRouter._periodic_insights_updater
PeriodicUpdate(found) ==
    LET processors == <<"stripe", "paypal", "visa">>
        insights == fetch_all_insights(processors, found)
    IN  /\ insights_cache' =
              cleanup_router_cache((periodic_key(hour) :> insights) @@ insights_cache)
        /\ orchestrator_cache' = orchestrator_cache_after(processors, found)
        /\ UNCHANGED <<ledger, nInserts, analysis, healths, decision, factors, aggregate,
                       remembered, router, healthVars, hour, lookup, enhanced,
                       breakerVars, limiterVars>>

\* the clock passes to the next hour
Tick ==
    /\ (hour - FirstHour) % 24 < MaxTicks
    /\ hour' = (hour + 1) % 24
    /\ UNCHANGED <<ledger, nInserts, analysis, healths, decision, factors, aggregate,
                   remembered, router, healthVars, insights_cache, orchestrator_cache,
                   lookup, enhanced, breakerVars, limiterVars>>

\* the processor lists of the routing requests
RoutedProcessorLists ==
    {l \in ProcessorLists : ids_of(l) = <<"stripe", "paypal">>}

NextInsights ==
    \/ \E processors \in RoutedProcessorLists, found \in SearchOutcomes,
          complexity \in {"simple", "balanced", "comprehensive"} :
          RealtimeInsights(processors, complexity, found)
    \/ \E found \in SearchOutcomes : PeriodicUpdate(found)
    \/ Tick

SpecInsights == Init /\ [][NextInsights]_vars

NextApplyInsights ==
    \E processors \in ProcessorLists, adjustments \in AdjustmentMaps :
        ApplyInsights(processors, adjustments)

SpecApplyInsights == Init /\ [][NextApplyInsights]_vars

\* the processor of a list that carries the id
ProcessorWithId(processors, id) ==
    CHOOSE p \in SeqToSet(processors) : p.id = id

\* C22: _apply_insights_to_processors returns the processors it was given,
\* each id once and none added, and a processor without an entry in the
\* adjustments map keeps what it came with: effective_fee_percentage is its
\* fee_percentage, adjusted_success_rate its success rate, priority_score its
\* priority_score (2.9, 0.95 and 0.5 where the processor dict has no such
\* key, the values the router reads for such a processor), and its other
\* keys are untouched.
C22_NoInsightsNoAdjustment ==
    enhanced # None =>
        LET given == enhanced.processors
            returned == enhanced.enhanced_processors
            insights_adjustments == enhanced.insights_adjustments
        IN  /\ Len(returned) = Len(given)
            /\ NoDuplicates(ids_of(returned))
            /\ SeqToSet(ids_of(returned)) = SeqToSet(ids_of(given))
            /\ \A j \in 1..Len(returned) :
                  returned[j].id \notin DOMAIN insights_adjustments =>
                      LET processor == ProcessorWithId(given, returned[j].id)
                      IN  /\ returned[j].effective_fee_percentage =
                                Get(processor, "fee_percentage", Rat(29, 10))
                          /\ returned[j].adjusted_success_rate =
                                Get(Get(processor, "metrics", EmptyDict),
                                    "success_rate", Pct(95))
                          /\ returned[j].priority_score =
                                Get(processor, "priority_score", Pct(50))
                          /\ \A key \in DOMAIN processor \ {"priority_score"} :
                                returned[j][key] = processor[key]

\* the map of test_simple_integration.py adjusts stripe only: paypal and square
\* come back unadjusted, stripe boosted to the front
C22_Witness ==
    /\ enhanced # None
    /\ ids_of(enhanced.processors) = <<"paypal", "square", "stripe">>
    /\ DOMAIN enhanced.insights_adjustments = {"stripe"}
    /\ ids_of(enhanced.enhanced_processors) = <<"stripe", "paypal", "square">>
    /\ enhanced.enhanced_processors[2].effective_fee_percentage = Pct(349)
    /\ enhanced.enhanced_processors[1].effective_fee_percentage = Rat(26, 10)

\* C23: when the periodic updater has stored insights for the current hour, a
\* routing request of complexity balanced or comprehensive in that hour takes
\* its insights from the router's cache and fetches nothing.
C23_PeriodicCacheIsRead ==
    (lookup # None /\ lookup.complexity # "simple" /\ lookup.periodic_stored) =>
        /\ lookup.from_router_cache
        /\ ~lookup.fetch_all_insights_called
        /\ ~lookup.searched
-----------------------------------------------------------------------------
(* Routing decisions: order of the fallback chain, capacity fit *)

\* a is a better fallback than b: lower freeze risk or, at equal risk, higher
\* freeze resistance
BetterFallback(a, b) ==
    \/ RLt(healths[a].freeze_risk, healths[b].freeze_risk)
    \/ /\ healths[a].freeze_risk = healths[b].freeze_risk
       /\ RGt(processor_capabilities[a].freeze_resistance,
              processor_capabilities[b].freeze_resistance)

\* C24: the fallback chain is ordered with lower freeze risk first and, at equal
\* risk, higher freeze resistance first, and the processors kept are the best of
\* the candidates (not selected, not frozen) in that order.
C24_FallbackChainOrder ==
    Routed =>
        LET chain == decision.result.fallback_chain
            candidates == {p \in Processors :
                              /\ p # decision.result.selected_processor
                              /\ healths[p].status # "frozen"}
        IN  /\ \A i, j \in 1..Len(chain) : i < j => ~BetterFallback(chain[j], chain[i])
            /\ \A p \in candidates \ SeqToSet(chain), q \in SeqToSet(chain) :
                  ~BetterFallback(p, q)

CanHandle(processor, amount) == amount <= processor_capabilities[processor].max_amount

\* C25: for every request whose amount some configured processor can handle, the
\* selected processor of the routing decision can handle the amount, on the
\* default path and on the freeze-avoidance path.
C25_SelectedFitsAmount ==
    (Routed /\ \E p \in Processors : CanHandle(p, decision.request.amount)) =>
        CanHandle(decision.result.selected_processor, decision.request.amount)

\* the score of an alternative as specified: (30 if the amount fits, else -50)
\* + (25 if a best_for tag occurs in the description) + (1 - freeze_risk) * 20
\* + freeze_resistance * 15
SpecifiedScore(p) ==
    LET fit == IF CanHandle(p, decision.request.amount) THEN 30 ELSE -50
        category ==
            IF AnyKeywordIn(processor_capabilities[p].best_for,
                            Lower(decision.request.description))
            THEN 25 ELSE 0
    IN  RAdd(Whole(fit + category),
             RAdd(RMul(RSub(Whole(1), healths[p].freeze_risk), Whole(20)),
                  RMul(processor_capabilities[p].freeze_resistance, Whole(15))))

\* C26: when freeze avoidance fires, the processor selected is a non-default
\* processor of highest specified score, and it can handle the amount whenever
\* some non-default processor can.
C26_AlternativeByScore ==
    (Routed /\ decision.result.freeze_avoidance) =>
        LET alternatives == Processors \ {decision.default_processor}
            selected == decision.result.selected_processor
        IN  /\ selected \in alternatives
            /\ \A q \in alternatives : RGeq(SpecifiedScore(selected), SpecifiedScore(q))
            /\ (\E q \in alternatives : CanHandle(q, decision.request.amount)) =>
                   CanHandle(selected, decision.request.amount)

\* Stripe frozen and a B2B retail payment of 75000: Square matches the
\* description but cannot handle the amount, and is not chosen
C26_Witness ==
    /\ Routed
    /\ decision.result.freeze_avoidance
    /\ decision.request = Request(75000, DescBusinessRetail)
    /\ ~CanHandle("square", 75000)
    /\ AnyKeywordIn(processor_capabilities["square"].best_for, Lower(DescBusinessRetail))
    /\ decision.result.selected_processor # "square"

-----------------------------------------------------------------------------
(* _assess_stripe_health over the rates around its thresholds *)

ChargebackRates == {Whole(0), Rat(49, 10000), Rat(5, 1000), Rat(99, 10000), Pct(1), Pct(2)}
RefundRates == {Whole(0), Rat(499, 10000), Pct(5), Rat(999, 10000), Pct(10), Pct(15)}
VolumeSpikes == {Whole(0), Rat(99, 10), Whole(10), Rat(199, 10), Whole(20), Whole(25)}

\* a call of _assess_stripe_health
AssessStripe(chargeback_rate, refund_rate, volume_spike) ==
    /\ healths' = [p \in {"stripe"} |->
                      assess_stripe_health(chargeback_rate, refund_rate, volume_spike)]
    /\ UNCHANGED <<ledger, nInserts, analysis, decision, factors, aggregate, remembered,
                   router, supportVars>>

NextStripeHealth ==
    \E cb \in ChargebackRates, rr \in RefundRates, vs \in VolumeSpikes :
        AssessStripe(cb, rr, vs)

SpecStripeHealth == Init /\ [][NextStripeHealth]_vars

\* C27: the Stripe health is consistent: status frozen exactly when the
\* chargeback rate is >= 0.01, exactly when freeze_risk is 0.95; status healthy
\* exactly when freeze_reasons is empty, exactly when freeze_risk is 0; in all
\* other cases the status is warning.
C27_StripeHealthConsistent ==
    healths # None =>
        LET health == healths["stripe"]
            frozen == health.status = "frozen"
            healthy == health.status = "healthy"
        IN  /\ frozen <=> RGeq(health.chargeback_rate, Pct(1))
            /\ frozen <=> health.freeze_risk = Pct(95)
            /\ healthy <=> health.freeze_reasons = <<>>
            /\ healthy <=> health.freeze_risk = Whole(0)
            /\ ~frozen /\ ~healthy => health.status = "warning"

\* refund rate and volume spike at their freeze thresholds without chargebacks:
\* three reasons short of frozen, freeze_risk 0.85, status warning
C27_Witness ==
    /\ healths # None
    /\ healths["stripe"].chargeback_rate = Rat(99, 10000)
    /\ healths["stripe"].refund_rate = Pct(10)
    /\ healths["stripe"].volume_spike = Whole(20)
    /\ healths["stripe"].status = "warning"
    /\ healths["stripe"].freeze_risk = Pct(85)
    /\ Len(healths["stripe"].freeze_reasons) = 3

-----------------------------------------------------------------------------
(* _calculate_overall_risk: monotonicity *)

\* C28: the aggregator is monotone: for the factor list just aggregated (the
\* empty list included) and every further factor f, the overall_risk of the
\* list with f appended is at least as severe and its freeze_probability is not
\* lower.
C28_AggregatorMonotone ==
    aggregate # None =>
        \A f \in FactorSamples :
            LET more == calculate_overall_risk(Append(factors, f))
            IN  /\ severity_weights(more.overall_risk)
                      >= severity_weights(aggregate.overall_risk)
                /\ RGeq(more.freeze_probability, aggregate.freeze_probability)
-----------------------------------------------------------------------------
(* CircuitBreaker.call *)

\* seconds by which the clock advances between calls
ClockSteps == {20, 30}

\* faulty variant: an open breaker lets every call through as a trial
breaker_admits_always(cb, timestamp) == TRUE

\* the guard at the head of call(): the call goes on to the wrapped function
\* unless the breaker is OPEN and no more than reset_timeout has passed since
\* the last failure
breaker_admits(cb, timestamp) ==
    cb.state = "OPEN" => timestamp - cb.last_failure_time > reset_timeout

\* the breaker after a call at the given time of a function that returns
\* (succeeds) or raises
breaker_after_call(cb, timestamp, succeeds) ==
    IF ~breaker_admits(cb, timestamp) THEN cb
    ELSE LET entered == IF cb.state = "OPEN" THEN [cb EXCEPT !.state = "HALF_OPEN"] ELSE cb
         IN  IF succeeds
             THEN IF entered.state = "HALF_OPEN"
                  THEN [entered EXCEPT !.state = "CLOSED", !.failure_count = 0]
                  ELSE entered
             ELSE [entered EXCEPT
                      !.failure_count = @ + 1,
                      !.last_failure_time = timestamp,
                      !.state = IF entered.failure_count + 1 >= failure_threshold
                                THEN "OPEN" ELSE @]

\* CircuitBreaker.call(func): func returns or raises
Call(succeeds) ==
    /\ succeeds \/ breaker.failure_count < MaxFailureCount
    /\ breaker' = breaker_after_call(breaker, now, succeeds)
    /\ call' = [before |-> breaker,
                timestamp |-> now,
                invoked |-> breaker_admits(breaker, now),
                raised |-> ~breaker_admits(breaker, now) \/ ~succeeds,
                succeeds |-> succeeds]
    /\ UNCHANGED <<ledger, nInserts, analysis, healths, decision, factors, aggregate,
                   remembered, router, healthVars, insightVars, limiterVars, now>>

\* time passes
Advance(seconds) ==
    /\ now + seconds <= MaxSeconds
    /\ now' = now + seconds
    /\ UNCHANGED <<ledger, nInserts, analysis, healths, decision, factors, aggregate,
                   remembered, router, healthVars, insightVars, limiterVars,
                   breaker, call>>

NextBreaker ==
    \/ \E succeeds \in BOOLEAN : Call(succeeds)
    \/ \E seconds \in ClockSteps : Advance(seconds)

SpecBreaker == Init /\ [][NextBreaker]_vars

\* the latest call found the breaker OPEN
CalledWhileOpen == call # None /\ call.before.state = "OPEN"

\* seconds between the last failure and the latest call
SinceLastFailure == call.timestamp - call.before.last_failure_time

\* C29: a call that finds the breaker OPEN less than reset_timeout after the
\* last failure raises without invoking the wrapped function and leaves the
\* breaker OPEN; a call that finds it OPEN after the timeout invokes the
\* function as the HALF_OPEN trial: its success leaves the breaker CLOSED
\* with failure_count 0, its failure leaves it OPEN.
C29_CircuitBreakerProtocol ==
    CalledWhileOpen =>
        /\ SinceLastFailure < reset_timeout =>
              /\ ~call.invoked
              /\ call.raised
              /\ breaker = call.before
        /\ SinceLastFailure > reset_timeout =>
              /\ call.invoked
              /\ IF call.succeeds
                 THEN breaker.state = "CLOSED" /\ breaker.failure_count = 0
                 ELSE breaker.state = "OPEN" /\ call.raised

\* five failures opened the breaker; 70 seconds after the last one a call is
\* let through as the trial, succeeds and closes the breaker
C29_Witness ==
    /\ CalledWhileOpen
    /\ call.before.failure_count = failure_threshold
    /\ SinceLastFailure = 70
    /\ call.invoked
    /\ call.succeeds
    /\ breaker.state = "CLOSED"
    /\ breaker.failure_count = 0
-----------------------------------------------------------------------------
(* EnhancedInsightsManager._check_rate_limit, interleaved at its awaits *)

\* current_count = await self.redis.get(key)
ReadCounter(c) ==
    /\ coroutines[c].at = "idle"
    /\ granted <= rate_limit_max_calls
    /\ coroutines' = [coroutines EXCEPT ![c] = [at |-> "read",
                                                 current_count |-> redis_key.value]]
    /\ UNCHANGED <<ledger, nInserts, analysis, healths, decision, factors, aggregate,
                   remembered, router, healthVars, insightVars, breakerVars,
                   redis_key, granted>>

\* current_count is None: await self.redis.setex(key, window, 1); return True
CreateCounter(c) ==
    /\ coroutines[c].at = "read"
    /\ coroutines[c].current_count = 0
    /\ redis_key' = [value |-> 1, expires |-> TRUE]
    /\ granted' = granted + 1
    /\ coroutines' = [coroutines EXCEPT ![c].at = "idle"]
    /\ UNCHANGED <<ledger, nInserts, analysis, healths, decision, factors, aggregate,
                   remembered, router, healthVars, insightVars, breakerVars>>

\* int(current_count) >= self.rate_limit_max_calls: return False
Refuse(c) ==
    /\ coroutines[c].at = "read"
    /\ coroutines[c].current_count >= rate_limit_max_calls
    /\ coroutines' = [coroutines EXCEPT ![c].at = "idle"]
    /\ UNCHANGED <<ledger, nInserts, analysis, healths, decision, factors, aggregate,
                   remembered, router, healthVars, insightVars, breakerVars,
                   redis_key, granted>>

\* await self.redis.incr(key); return True.  INCR keeps the expiry of an
\* existing key and creates a missing one without expiry
Increment(c) ==
    /\ coroutines[c].at = "read"
    /\ coroutines[c].current_count > 0
    /\ coroutines[c].current_count < rate_limit_max_calls
    /\ redis_key' = [redis_key EXCEPT !.value = @ + 1]
    /\ granted' = granted + 1
    /\ coroutines' = [coroutines EXCEPT ![c].at = "idle"]
    /\ UNCHANGED <<ledger, nInserts, analysis, healths, decision, factors, aggregate,
                   remembered, router, healthVars, insightVars, breakerVars>>

\* the key expires: the rate-limit window is over
Expire ==
    /\ redis_key.expires
    /\ redis_key' = NoKey
    /\ granted' = 0
    /\ UNCHANGED <<ledger, nInserts, analysis, healths, decision, factors, aggregate,
                   remembered, router, healthVars, insightVars, breakerVars, coroutines>>

NextLimiter ==
    \/ \E c \in 1..MaxCoroutines : ReadCounter(c)
    \/ \E c \in 1..MaxCoroutines : CreateCounter(c)
    \/ \E c \in 1..MaxCoroutines : Refuse(c)
    \/ \E c \in 1..MaxCoroutines : Increment(c)
    \/ Expire

SpecLimiter == Init /\ [][NextLimiter]_vars

\* C30: within one rate-limit window at most rate_limit_max_calls calls of
\* _check_rate_limit return True, also when coroutines interleave at its awaits.
C30_RateLimitHolds == granted <= rate_limit_max_calls
====
